---- MODULE Spec2Model ----
(***************************************************************************)
(* EduMetrics analytics pipeline: the request handlers of routes/analyze.py *)
(* and the engines they call (core/stats.py, core/risk.py, core/gaps.py,    *)
(* core/insights.py, core/ai_insights.py).                                  *)
(*                                                                          *)
(* Numbers.  Percentages in a table are whole points.  A value the code     *)
(* keeps as an unrounded float is an exact fraction [n, d]; a value the     *)
(* code rounds (round(v, k)) is the integer count of 10^-k units, rounded   *)
(* half-to-even as Python does.  Square roots are floored at 10^-3.         *)
(* p-values come from scipy and are inputs of the handlers, in 10^-4.      *)
(***************************************************************************)
EXTENDS Integers, Sequences, FiniteSets, TLC

VARIABLES df, pass_mark, env, req, resp,
          sessions, files, now, uuids, uploading, popped

vars == <<df, pass_mark, env, req, resp, sessions, files, now, uuids, uploading, popped>>

(* the state of routes/upload.py *)
upload_vars == <<sessions, files, now, uuids, uploading, popped>>

(* ------------------------------------------------------------------ *)
(* Encodings of Python values                                          *)
(* ------------------------------------------------------------------ *)
NaN == -999999
None == -999998
NaNStr == "<NaN>"
NoneStr == "<None>"
BadText == -999997

(* str(v) of a label cell: a missing label prints as "nan" *)
Str(v) == IF v = NaNStr THEN "nan" ELSE v

(* ------------------------------------------------------------------ *)
(* Arithmetic                                                          *)
(* ------------------------------------------------------------------ *)
Abs(x) == IF x < 0 THEN -x ELSE x
Min(a, b) == IF a < b THEN a ELSE b
Max(a, b) == IF a > b THEN a ELSE b

RECURSIVE GCD(_, _)
GCD(a, b) == IF b = 0 THEN a ELSE GCD(b, a % b)

(* the fraction n/d in lowest terms, d > 0 *)
Rat(n, d) ==
  LET g == GCD(Abs(n), Abs(d))
      s == IF d < 0 THEN -1 ELSE 1
  IN  [n |-> s * (n \div g), d |-> s * (d \div g)]

RInt(k) == [n |-> k, d |-> 1]
RAdd(a, b) == Rat(a.n * b.d + b.n * a.d, a.d * b.d)
RSub(a, b) == Rat(a.n * b.d - b.n * a.d, a.d * b.d)
RMul(a, b) == Rat(a.n * b.n, a.d * b.d)
RDiv(a, b) == Rat(a.n * b.d, a.d * b.n)
RAbs(a) == [n |-> Abs(a.n), d |-> a.d]
RLess(a, b) == a.n * b.d < b.n * a.d
RMin(a, b) == IF RLess(a, b) THEN a ELSE b

(* floor(n * 10^k / d) and its remainder, by long division; n >= 0, d > 0 *)
RECURSIVE DecR(_, _, _)
DecR(n, d, k) == IF k = 0 THEN n % d ELSE (10 * DecR(n, d, k - 1)) % d

RECURSIVE DecQ(_, _, _)
DecQ(n, d, k) ==
  IF k = 0 THEN n \div d
  ELSE 10 * DecQ(n, d, k - 1) + ((10 * DecR(n, d, k - 1)) \div d)

(* Python round(r, k): the count of 10^-k units, ties to even *)
Round(r, k) ==
  LET a == Abs(r.n)
      q == DecQ(a, r.d, k + 1)
      rem == DecR(a, r.d, k + 1)
      base == q \div 10
      last == q % 10
      up == last > 5 \/ (last = 5 /\ (rem # 0 \/ base % 2 = 1))
      m == base + (IF up THEN 1 ELSE 0)
  IN  IF r.n < 0 THEN -m ELSE m

(* floor(sqrt(n)), by bisection on lo..hi *)
RECURSIVE ISqrtIn(_, _, _)
ISqrtIn(n, lo, hi) ==
  IF lo >= hi THEN lo
  ELSE LET mid == (lo + hi + 1) \div 2
       IN  IF mid * mid <= n THEN ISqrtIn(n, mid, hi) ELSE ISqrtIn(n, lo, mid - 1)

ISqrt(n) == ISqrtIn(n, 0, Min(n, 46340))

(* ------------------------------------------------------------------ *)
(* Sequences                                                           *)
(* ------------------------------------------------------------------ *)
RECURSIVE SeqSum(_)
SeqSum(s) == IF s = <<>> THEN 0 ELSE Head(s) + SeqSum(Tail(s))

Range(s) == {s[i] : i \in 1..Len(s)}

Contains(s, x) == \E i \in 1..Len(s) : s[i] = x

(* pandas Series.unique(): the values in order of first appearance *)
RECURSIVE unique(_)
unique(s) ==
  IF s = <<>> THEN <<>>
  ELSE LET u == unique(SubSeq(s, 1, Len(s) - 1))
           x == s[Len(s)]
       IN  IF Contains(u, x) THEN u ELSE Append(u, x)

(* stable ascending sort of the positions 1..Len(keys) by their integer keys *)
RECURSIVE InsertIdx(_, _, _)
InsertIdx(i, s, keys) ==
  IF s = <<>> THEN <<i>>
  ELSE IF keys[i] < keys[Head(s)] THEN <<i>> \o s
       ELSE <<Head(s)>> \o InsertIdx(i, Tail(s), keys)

RECURSIVE SortIdx(_, _)
SortIdx(keys, n) ==
  IF n = 0 THEN <<>> ELSE InsertIdx(n, SortIdx(keys, n - 1), keys)

(* s reordered by ascending keys[i], ties in the order of s *)
SortBy(s, keys) ==
  LET perm == SortIdx(keys, Len(s)) IN [j \in 1..Len(s) |-> s[perm[j]]]

(* Python's str ordering on the labels of the model *)
Lexicon ==
  <<"2024 T2", "3", "A", "Ann B", "B", "C", "Cy", "East", "Eng", "F", "Final", "M", "Math", "North",
    "Overall", "S1", "S2", "S3", "S4", "S5", "Sci", "T1", "Term 1", "Term 2", "Term 2024", "Term 3",
    "Term 4", "Term 5", "West", "ann_b", "nan">>

StrPos(s) == CHOOSE i \in 1..Len(Lexicon) : Lexicon[i] = s
StrLess(a, b) == StrPos(a) < StrPos(b)

sorted(s) == SortBy(s, [i \in 1..Len(s) |-> StrPos(s[i])])

(* ------------------------------------------------------------------ *)
(* Tables                                                              *)
(* ------------------------------------------------------------------ *)
(* str(c).lower().strip() of a column name *)
LowerStrip(c) ==
  CASE c = "Percentage" -> "percentage"
    [] c = "Class" -> "class"
    [] c = " term " -> "term"
    [] OTHER -> c

(* _find_col: the column of the first alias present, NoneStr when none *)
RECURSIVE find_col(_, _)
find_col(d, aliases) ==
  IF aliases = <<>> THEN NoneStr
  ELSE LET hits == {i \in 1..Len(d.columns) : LowerStrip(d.columns[i]) = Head(aliases)}
       IN  IF hits # {}
           THEN d.columns[CHOOSE i \in hits : \A j \in hits : j <= i]
           ELSE find_col(d, Tail(aliases))

HasCol(d, c) == Contains(d.columns, c)

(* pd.to_numeric(errors="coerce") of one cell *)
to_numeric(v) == IF v = BadText THEN NaN ELSE v

(* the column c of the rows, as a sequence *)
ColOf(rows, c) == [i \in 1..Len(rows) |-> rows[i][c]]

(* Series.dropna() of a numeric column *)
dropna(s) == SelectSeq(s, LAMBDA v : v # NaN)

PctOf(rows) == dropna(ColOf(rows, "percentage"))

(* rows whose column c equals the label v; a missing label equals nothing *)
RowsWhere(rows, c, v) == SelectSeq(rows, LAMBDA r : r[c] # NaNStr /\ r[c] = v)

(* a float NaN among the exact fractions *)
NaNRat == [n |-> 0, d |-> 0]
IsNaN(r) == r.d = 0

(* Series.mean() of the non-missing values: an exact fraction, or NaN *)
mean(s) == IF s = <<>> THEN NaNRat ELSE Rat(SeqSum(s), Len(s))

(* the keys of df.groupby(c): the non-missing labels, sorted *)
groupby(rows, c) == sorted(SelectSeq(unique(ColOf(rows, c)), LAMBDA v : v # NaNStr))

(* _safe_float without the test for NaN *)
safe_float_keep_nan(v) == IF IsNaN(v) THEN NaN ELSE Round(v, 2)

(* _safe_float of risk.py and stats.py: None for NaN, else round(v, 2) *)
safe_float(v) == IF IsNaN(v) THEN None ELSE Round(v, 2)

(* _ensure_percentage, and its inline copy in compute_risk_scores: coerce  *)
(* the percentage column, or derive it from the score and max-score columns *)
ensure_percentage(d, score_aliases, max_aliases) ==
  IF HasCol(d, "percentage")
  THEN [d EXCEPT !.rows = [i \in 1..Len(d.rows) |->
          [d.rows[i] EXCEPT !["percentage"] = to_numeric(@)]]]
  ELSE
    LET score_col == find_col(d, score_aliases)
        max_col == find_col(d, max_aliases)
        Derived(r) ==
          LET score_num == to_numeric(r[score_col])
              max_num == IF max_col = NoneStr THEN NaN ELSE to_numeric(r[max_col])
          IN  IF max_col # NoneStr /\ max_num # NaN /\ max_num > 0
              THEN IF score_num = NaN THEN NaN
                   \* .round(2), in hundredths; the scores of the model's
                   \* tables give whole percentages
                   ELSE Round(Rat(score_num * 100, max_num), 2) \div 100
              ELSE score_num
    IN  IF score_col = NoneStr THEN d
        ELSE [columns |-> Append(d.columns, "percentage"),
              rows |-> [i \in 1..Len(d.rows) |->
                 [c \in DOMAIN d.rows[i] \cup {"percentage"} |->
                    IF c = "percentage" THEN Derived(d.rows[i]) ELSE d.rows[i][c]]]]

(* ------------------------------------------------------------------ *)
(* core/risk.py                                                        *)
(* ------------------------------------------------------------------ *)
RISK_SCORE_ALIASES == <<"score", "marks", "mark", "total">>
RISK_MAX_ALIASES == <<"max_score", "max_marks", "out_of">>

(* the keys of the RECOMMENDATIONS library *)
RECOMMENDATIONS ==
  {"overall_average", "subjects_failed", "negative_trend", "class_deviation",
   "sudden_drop", "general_high", "general_medium"}

(* factor["factor"].lower().replace(" ", "_") *)
factor_key(name) ==
  CASE name = "Overall Average" -> "overall_average"
    [] name = "Subjects Failed" -> "subjects_failed"
    [] name = "Score Trend" -> "score_trend"
    [] name = "Class Deviation" -> "class_deviation"
    [] name = "Sudden Drop" -> "sudden_drop"

(* sample variance (ddof = 1) of two or more values, an exact fraction *)
variance(s) ==
  LET m == Len(s)
      S == SeqSum(s)
      Q == SeqSum([i \in 1..m |-> s[i] * s[i]])
  IN  Rat(m * Q - S * S, m * (m - 1))

(* class_stats: the classes with more than one score, with mean and variance *)
class_stats(d, class_col) ==
  IF class_col = NoneStr THEN <<>>
  ELSE LET keys == groupby(d.rows, class_col)
           Stat(cls) == LET pct == PctOf(RowsWhere(d.rows, class_col, cls))
                        IN  [cls |-> cls, n |-> Len(pct), mean |-> mean(pct),
                             var |-> IF Len(pct) > 1 THEN variance(pct) ELSE NaNRat]
       IN  SelectSeq([i \in 1..Len(keys) |-> Stat(keys[i])], LAMBDA c : c.n > 1)

(* np.polyfit(arange(k), y, 1)[0] for k >= 2 values without NaN *)
polyfit_slope(y) ==
  LET k == Len(y)
      RECURSIVE Acc(_)
      Acc(i) == IF i = 0 THEN RInt(0)
                ELSE RAdd(Acc(i - 1), RMul(RInt(2 * (i - 1) - (k - 1)), y[i]))
  IN  RMul(Acc(k), Rat(6, k * (k * k - 1)))

(* risk_level_of with the Medium threshold made strict *)
risk_level_strict(risk_score) ==
  IF risk_score >= 700 THEN "High"
  ELSE IF risk_score > 400 THEN "Medium"
  ELSE "Low"

(* the risk level of a risk score (in tenths of a point) *)
risk_level_of(risk_score) ==
  IF risk_score >= 700 THEN "High"
  ELSE IF risk_score >= 400 THEN "Medium"
  ELSE "Low"

(* the recommendation: the library keys whose texts are joined *)
recommendation_of(risk_level, factors) ==
  LET triggered_factors == SelectSeq(factors, LAMBDA f : f.triggered)
      \* max(..., key=weight): the first factor of the greatest weight
      top == CHOOSE i \in 1..Len(triggered_factors) :
               /\ \A j \in 1..Len(triggered_factors) :
                     triggered_factors[j].weight <= triggered_factors[i].weight
               /\ \A j \in 1..(i - 1) :
                     triggered_factors[j].weight < triggered_factors[i].weight
      key == factor_key(triggered_factors[top].factor)
  IN  IF risk_level = "High"
      THEN IF triggered_factors # <<>> /\ key \in RECOMMENDATIONS
           THEN <<"general_high", key>>
           ELSE <<"general_high">>
      ELSE IF risk_level = "Medium" THEN <<"general_medium">>
      ELSE <<"satisfactory">>

(* avg_factor with the shortfall's operands swapped *)
avg_factor_swapped(student_mean, pm) ==
  LET below == RLess(student_mean, RInt(pm))
  IN  [score |-> IF below
                 THEN RMin(RMul(RDiv(RSub(student_mean, RInt(pm)), RInt(pm)), RInt(100)),
                           RInt(100))
                 ELSE RInt(0),
       factors |-> <<[factor |-> "Overall Average", weight |-> 30, triggered |-> below]>>]

(* Factor 1: overall average below the pass mark *)
avg_factor(student_mean, pm) ==
  LET below == RLess(student_mean, RInt(pm))
  IN  [score |-> IF below
                 THEN RMin(RMul(RDiv(RSub(RInt(pm), student_mean), RInt(pm)), RInt(100)),
                           RInt(100))
                 ELSE RInt(0),
       factors |-> <<[factor |-> "Overall Average", weight |-> 30, triggered |-> below]>>]

(* the score of factor 2 from the numbers of failed and of all subjects *)
fail_score(failed_subjects, total_subjects) ==
  [score |-> IF failed_subjects >= 3
             THEN RMin(Rat(failed_subjects * 100, Max(total_subjects, 1)), RInt(100))
             ELSE IF failed_subjects > 0
                  THEN Rat(failed_subjects * 50, Max(total_subjects, 1))
                  ELSE RInt(0),
   factors |-> <<[factor |-> "Subjects Failed", weight |-> 25,
                  triggered |-> failed_subjects > 0]>>]

(* the mean percentage of each group of rows: groupby(c)["percentage"].mean() *)
group_means(rows, c, keys) ==
  [i \in 1..Len(keys) |-> mean(PctOf(RowsWhere(rows, c, keys[i])))]

(* (subject_means < pass_mark).sum(): a NaN mean is not below anything *)
count_below(means, pm) ==
  Cardinality({i \in 1..Len(means) : ~IsNaN(means[i]) /\ RLess(means[i], RInt(pm))})

(* Factor 2: subjects failed *)
fail_factor(sdf, subject_col, pm) ==
  IF subject_col = NoneStr THEN [score |-> RInt(0), factors |-> <<>>]
  ELSE fail_score(count_below(group_means(sdf, subject_col, groupby(sdf, subject_col)), pm),
                  Len(groupby(sdf, subject_col)))

(* the score and direction of factor 3 from the slope of the term means *)
trend_score(slope) ==
  LET F(trig) == <<[factor |-> "Score Trend", weight |-> 25, triggered |-> trig]>>
  IN  IF RLess(slope, RInt(-3))
      THEN [score |-> RMin(RMul(RAbs(slope), RInt(10)), RInt(100)),
            direction |-> "declining", factors |-> F(TRUE), exc |-> "none"]
      ELSE IF RLess(RInt(3), slope)
      THEN [score |-> RInt(0), direction |-> "improving", factors |-> F(FALSE), exc |-> "none"]
      ELSE [score |-> RInt(0), direction |-> "stable", factors |-> F(FALSE), exc |-> "none"]

(* factor 3 from the term means, in sort_index (string) order.              *)
(* np.polyfit of a NaN term mean raises LinAlgError or yields a NaN slope,  *)
(* as the LAPACK build decides: nanfit is that outcome.                     *)
trend_of(term_means, nanfit) ==
  IF Len(term_means) < 2
  THEN [score |-> RInt(0), direction |-> "stable", exc |-> "none",
        factors |-> <<[factor |-> "Score Trend", weight |-> 25, triggered |-> FALSE]>>]
  ELSE IF \E i \in 1..Len(term_means) : IsNaN(term_means[i])
  THEN [score |-> RInt(0), direction |-> "stable",
        exc |-> IF nanfit = "raise" THEN "LinAlgError" ELSE "none",
        factors |-> <<[factor |-> "Score Trend", weight |-> 25, triggered |-> FALSE]>>]
  ELSE trend_score(polyfit_slope(term_means))

(* Factor 3: score trend over the terms *)
trend_factor(sdf, term_col, nanfit) ==
  IF term_col = NoneStr
  THEN [score |-> RInt(0), direction |-> "stable", factors |-> <<>>, exc |-> "none"]
  ELSE trend_of(group_means(sdf, term_col, groupby(sdf, term_col)), nanfit)

(* the score of factor 4 from the class's mean and variance: the deviation  *)
(* delta / std is kept as its square devsq = delta^2 / var                  *)
class_dev_score(delta, devsq) ==
  LET triggered == delta.n > 0 /\ RLess(Rat(9, 4), devsq)
  IN  [score |-> IF triggered
                 THEN IF ~RLess(devsq, RInt(9)) THEN RInt(100)
                      ELSE Rat(ISqrt(DecQ(devsq.n, devsq.d, 6)) * 100, 3000)
                 ELSE RInt(0),
       factors |-> <<[factor |-> "Class Deviation", weight |-> 10,
                      triggered |-> triggered]>>]

class_dev_of(hit, student_mean) ==
  IF hit = <<>> \/ hit[1].var.n <= 0 THEN [score |-> RInt(0), factors |-> <<>>]
  ELSE class_dev_score(RSub(hit[1].mean, student_mean),
                       RDiv(RMul(RSub(hit[1].mean, student_mean),
                                 RSub(hit[1].mean, student_mean)), hit[1].var))

(* Factor 4: more than 1.5 standard deviations below the class mean *)
class_dev_factor(sdf, class_col, cstats, student_mean) ==
  IF class_col = NoneStr \/ sdf = <<>> THEN [score |-> RInt(0), factors |-> <<>>]
  ELSE class_dev_of(SelectSeq(cstats, LAMBDA cs : cs.cls = Str(sdf[1][class_col])),
                    student_mean)

(* Factor 5: the biggest fall between consecutive scores of one subject,    *)
(* its rows sorted by the term label (missing terms last)                   *)
RECURSIVE biggest_drop_in(_)
biggest_drop_in(scores) ==
  IF Len(scores) < 2 THEN 0
  ELSE LET rest == biggest_drop_in(Tail(scores))
       IN  IF scores[1] # NaN /\ scores[2] # NaN
           THEN Max(scores[1] - scores[2], rest)
           ELSE rest

(* the scores of one subject, its rows sorted by term (missing terms last) *)
scores_by_term(rows, term_col) ==
  ColOf(SortBy(rows, [i \in 1..Len(rows) |->
                        IF rows[i][term_col] = NaNStr THEN Len(Lexicon) + 1
                        ELSE StrPos(rows[i][term_col])]),
        "percentage")

(* the greatest of the drops and 0 *)
RECURSIVE max_drop(_)
max_drop(drops) == IF drops = <<>> THEN 0 ELSE Max(Head(drops), max_drop(Tail(drops)))

drop_score(biggest_drop) ==
  [score |-> IF biggest_drop > 20
             THEN RMin(Rat(biggest_drop * 100, 40), RInt(100))
             ELSE RInt(0),
   factors |-> <<[factor |-> "Sudden Drop", weight |-> 10, triggered |-> biggest_drop > 20]>>,
   exc |-> "none"]

drop_of(sdf, term_col, subject_col, terms, subjects) ==
  \* sorted() of a float NaN among str labels: '<' is not supported
  IF Len(terms) >= 2 /\ Contains(terms, NaNStr)
  THEN [score |-> RInt(0), factors |-> <<>>, exc |-> "TypeError"]
  ELSE IF Len(terms) < 2 THEN [score |-> RInt(0), factors |-> <<>>, exc |-> "none"]
  ELSE drop_score(max_drop([i \in 1..Len(subjects) |->
         biggest_drop_in(scores_by_term(RowsWhere(sdf, subject_col, subjects[i]), term_col))]))

(* Factor 5: the biggest fall between consecutive scores of one subject *)
drop_factor(sdf, term_col, subject_col) ==
  IF term_col = NoneStr \/ subject_col = NoneStr
  THEN [score |-> RInt(0), factors |-> <<>>, exc |-> "none"]
  ELSE drop_of(sdf, term_col, subject_col,
               unique(ColOf(sdf, term_col)), unique(ColOf(sdf, subject_col)))

(* weighted_risk_score with the weights taken as 30, 25, 25, 10, 10 *)
weighted_risk_score_unscaled(avg, fail, trend, dev, drop) ==
  Min(Round(RAdd(RAdd(RAdd(RAdd(RMul(avg, RInt(30)), RMul(fail, RInt(25))),
                           RMul(trend, RInt(25))),
                      RMul(dev, RInt(10))),
                 RMul(drop, RInt(10))), 1),
      1000)

(* the weighted sum of the five factor scores, rounded to one decimal and   *)
(* clamped to 100: risk_score in tenths of a point                         *)
weighted_risk_score(avg, fail, trend, dev, drop) ==
  Min(Round(RAdd(RAdd(RAdd(RAdd(RMul(avg, Rat(30, 100)),
                                RMul(fail, Rat(25, 100))),
                           RMul(trend, Rat(25, 100))),
                      RMul(dev, Rat(10, 100))),
                 RMul(drop, Rat(10, 100))), 1),
      1000)

(* the dict appended for a student, from the five factors *)
assessment(sid, sdf, c, student_mean, factors, risk_score, trend_direction) ==
  [skip |-> FALSE, exc |-> "none",
   rec |-> [student_id |-> Str(sid),
            name |-> IF c.name = NoneStr THEN Str(sid) ELSE Str(sdf[1][c.name]),
            risk_score |-> risk_score,
            risk_level |-> risk_level_of(risk_score),
            overall_mean |-> safe_float(student_mean),
            trend_direction |-> trend_direction,
            factors |-> factors,
            recommendation |-> recommendation_of(risk_level_of(risk_score), factors),
            class |-> IF c.class = NoneStr THEN NoneStr ELSE Str(sdf[1][c.class])]]

assess(sid, sdf, c, student_mean, f1, f2, f3, f4, f5) ==
  IF f3.exc # "none" THEN [skip |-> FALSE, exc |-> f3.exc]
  ELSE IF f5.exc # "none" THEN [skip |-> FALSE, exc |-> f5.exc]
  ELSE assessment(sid, sdf, c, student_mean,
                  f1.factors \o f2.factors \o f3.factors \o f4.factors \o f5.factors,
                  weighted_risk_score(f1.score, f2.score, f3.score, f4.score, f5.score),
                  f3.direction)

assess_rows(sid, sdf, c, cstats, student_mean, pm, nanfit) ==
  assess(sid, sdf, c, student_mean,
         avg_factor(student_mean, pm),
         fail_factor(sdf, c.subject, pm),
         trend_factor(sdf, c.term, nanfit),
         class_dev_factor(sdf, c.class, cstats, student_mean),
         drop_factor(sdf, c.term, c.subject))

(* one pass of the loop over student_ids: the student's assessment *)
risk_student(d, c, cstats, sid, pm, nanfit) ==
  IF PctOf(RowsWhere(d.rows, c.student, sid)) = <<>> THEN [skip |-> TRUE, exc |-> "none"]
  ELSE assess_rows(sid, RowsWhere(d.rows, c.student, sid), c, cstats,
                   mean(PctOf(RowsWhere(d.rows, c.student, sid))), pm, nanfit)

(* the columns compute_risk_scores works on *)
risk_columns(d) ==
  [student |-> find_col(d, <<"student_id", "name", "student_name">>),
   subject |-> find_col(d, <<"subject">>),
   term |-> find_col(d, <<"term", "semester">>),
   class |-> find_col(d, <<"class", "grade", "form">>),
   name |-> find_col(d, <<"name", "student_name", "full_name">>)]

(* the loop over student_ids: one entry per student met, in table order *)
score_each(d, c, cstats, student_ids, pm, nanfit) ==
  [i \in 1..Len(student_ids) |-> risk_student(d, c, cstats, student_ids[i], pm, nanfit)]

score_with(d, c, pm, nanfit) ==
  score_each(d, c, class_stats(d, c.class), unique(ColOf(d.rows, c.student)), pm, nanfit)

score_students(d, pm, nanfit) == score_with(d, risk_columns(d), pm, nanfit)

(* risk_filter without the school-average condition *)
risk_filter_pass_mark_only(students, school_average, pm) ==
  SelectSeq(students, LAMBDA s : s.overall_mean # None /\ s.overall_mean < pm * 100)

(* the output filter: below the school average AND below the pass mark *)
risk_filter(students, school_average, pm) ==
  IF school_average # None
  THEN SelectSeq(students, LAMBDA s :
         /\ s.overall_mean # None
         /\ s.overall_mean < school_average
         /\ s.overall_mean < pm * 100)
  ELSE students

(* the summary of the students returned *)
count_level(students, level) ==
  Cardinality({i \in 1..Len(students) : students[i].risk_level = level})

risk_summary(students, school_average) ==
  [total |-> Len(students),
   high_risk |-> count_level(students, "High"),
   medium_risk |-> count_level(students, "Medium"),
   low_risk |-> count_level(students, "Low"),
   school_average |-> school_average,
   high_risk_pct |-> IF students # <<>>
                     THEN Round(Rat(count_level(students, "High") * 100, Len(students)), 2)
                     ELSE 0]

(* sort(key=risk_score, reverse=True): descending, ties in list order *)
risk_sorted(kept) == SortBy(kept, [i \in 1..Len(kept) |-> -kept[i].risk_score])

risk_result(students, school_average) ==
  [exc |-> "none", students |-> students, summary |-> risk_summary(students, school_average)]

(* the end of compute_risk_scores: the first exception raised in the loop,  *)
(* or the filtered and sorted assessments                                   *)
risk_output(scored, school_average, pm) ==
  LET raised == {i \in 1..Len(scored) : scored[i].exc # "none"}
      appended == SelectSeq(scored, LAMBDA s : ~s.skip)
  IN  IF raised # {}
      THEN [exc |-> scored[CHOOSE i \in raised : \A j \in raised : i <= j].exc]
      ELSE risk_result(risk_sorted(risk_filter([i \in 1..Len(appended) |-> appended[i].rec],
                                               school_average, pm)),
                       school_average)

risk_scores_of(d, pm, nanfit) ==
  IF ~HasCol(d, "percentage") THEN [exc |-> "KeyError"]
  ELSE IF risk_columns(d).student = NoneStr
  THEN [exc |-> "none", students |-> <<>>, summary |-> [total |-> 0]]
  ELSE risk_output(score_students(d, pm, nanfit), safe_float(mean(PctOf(d.rows))), pm)

(* compute_risk_scores(df, pass_mark): the dict returned, or the exception *)
compute_risk_scores(d0, pm, nanfit) ==
  risk_scores_of(ensure_percentage(d0, RISK_SCORE_ALIASES, RISK_MAX_ALIASES), pm, nanfit)

(* ------------------------------------------------------------------ *)
(* core/kenya_grading.py                                               *)
(* ------------------------------------------------------------------ *)
(* re.findall(r"\d+", t): the numbers written in a label of the model *)
DigitRuns(t) ==
  CASE t \in {"Term 1", "T1", "S1"} -> <<1>>
    [] t \in {"Term 2", "S2"} -> <<2>>
    [] t \in {"Term 3", "S3", "3"} -> <<3>>
    [] t \in {"Term 4", "S4"} -> <<4>>
    [] t \in {"Term 5", "S5"} -> <<5>>
    [] t = "2024 T2" -> <<2024, 2>>
    [] t = "Term 2024" -> <<2024>>
    [] OTHER -> <<>>

TERM_META == [t \in {"Term 1", "Term 2", "Term 3"} |-> DigitRuns(t)[1]]

(* the sort key of sort_terms: TERM_META's order, else the last number, else 99 *)
term_key(t) ==
  IF t \in DOMAIN TERM_META THEN TERM_META[t]
  ELSE IF DigitRuns(t) # <<>> THEN DigitRuns(t)[Len(DigitRuns(t))]
  ELSE 99

(* sort_terms with labels of equal key put in reverse input order *)
sort_terms_unstable(term_list) ==
  SortBy([i \in 1..Len(term_list) |-> term_list[Len(term_list) - i + 1]],
         [i \in 1..Len(term_list) |-> term_key(term_list[Len(term_list) - i + 1])])

sort_terms(term_list) == SortBy(term_list, [i \in 1..Len(term_list) |-> term_key(term_list[i])])

(* ------------------------------------------------------------------ *)
(* core/stats.py                                                       *)
(* ------------------------------------------------------------------ *)
STATS_SCORE_ALIASES == <<"score", "marks", "mark", "total", "points">>
STATS_MAX_ALIASES == <<"max_score", "max_marks", "out_of", "maximum">>

(* Series.nunique(): the number of distinct non-missing labels *)
nunique(rows, c) == Cardinality({rows[i][c] : i \in 1..Len(rows)} \ {NaNStr})

(* Series.median() of the non-missing values *)
median_sorted(s) ==
  IF s = <<>> THEN NaNRat
  ELSE IF Len(s) % 2 = 1 THEN RInt(s[(Len(s) + 1) \div 2])
  ELSE Rat(s[Len(s) \div 2] + s[Len(s) \div 2 + 1], 2)

median(s) == median_sorted(SortBy(s, s))

(* round(sqrt(v), 2) in hundredths, from V = floor(v * 10^4), its root h   *)
(* and the remainder rem/d of the division: up when sqrt >= h + 1/2         *)
sqrt_round2(V, h, rem, d) ==
  IF V > h * h + h \/ (V = h * h + h /\ 4 * rem >= d) THEN h + 1 ELSE h

(* _safe_float(Series.std()): None for fewer than two values *)
std_round2(s) ==
  IF Len(s) < 2 THEN None
  ELSE sqrt_round2(DecQ(variance(s).n, variance(s).d, 4),
                   ISqrt(DecQ(variance(s).n, variance(s).d, 4)),
                   DecR(variance(s).n, variance(s).d, 4),
                   variance(s).d)

(* fail_count with the pass mark itself counted as a fail *)
fail_count_inclusive(pct, pm) == Cardinality({i \in 1..Len(pct) : pct[i] <= pm})

(* (pct >= pass_mark).sum() and (pct < pass_mark).sum() *)
pass_count(pct, pm) == Cardinality({i \in 1..Len(pct) : pct[i] >= pm})
fail_count(pct, pm) == Cardinality({i \in 1..Len(pct) : pct[i] < pm})

(* _safe_float(count / len(pct) * 100) if len(pct) > 0 else 0 *)
rate(count, n) == IF n > 0 THEN Round(Rat(count * 100, n), 2) ELSE 0

(* np.histogram(pct, bins=[0, 20, 30, ..., 100]): the last bin is closed *)
HIST_EDGES == <<0, 20, 30, 40, 50, 60, 70, 80, 90, 100>>

histogram(pct) ==
  [b \in 1..(Len(HIST_EDGES) - 1) |->
     Cardinality({i \in 1..Len(pct) :
        /\ HIST_EDGES[b] <= pct[i]
        /\ (pct[i] < HIST_EDGES[b + 1] \/ (b = Len(HIST_EDGES) - 1 /\ pct[i] = 100))})]

(* the scalar fields of the overview *)
overview_scalars(d, c, pct, pm) ==
  [total_students |-> IF c.student # NoneStr THEN nunique(d.rows, c.student) ELSE Len(d.rows),
   total_subjects |-> IF c.subject # NoneStr THEN nunique(d.rows, c.subject) ELSE 0,
   total_classes |-> IF c.class # NoneStr THEN nunique(d.rows, c.class) ELSE 0,
   total_terms |-> IF c.term # NoneStr THEN nunique(d.rows, c.term) ELSE 0,
   total_records |-> Len(d.rows),
   overall_mean |-> safe_float(mean(pct)),
   overall_median |-> safe_float(median(pct)),
   overall_std |-> std_round2(pct),
   pass_rate |-> rate(pass_count(pct, pm), Len(pct)),
   fail_rate |-> rate(fail_count(pct, pm), Len(pct)),
   pass_count |-> pass_count(pct, pm),
   fail_count |-> fail_count(pct, pm)]

(* Series.quantile(q4 / 4) of sorted values, by linear interpolation *)
quantile_sorted(s, q4) ==
  IF s = <<>> THEN NaNRat
  ELSE IF ((Len(s) - 1) * q4) % 4 = 0 THEN RInt(s[((Len(s) - 1) * q4) \div 4 + 1])
  ELSE Rat(4 * s[((Len(s) - 1) * q4) \div 4 + 1]
           + (((Len(s) - 1) * q4) % 4)
             * (s[((Len(s) - 1) * q4) \div 4 + 2] - s[((Len(s) - 1) * q4) \div 4 + 1]),
           4)

quantile(s, q4) == quantile_sorted(SortBy(s, s), q4)

RECURSIVE seq_min(_)
seq_min(s) == IF Len(s) = 1 THEN s[1] ELSE Min(Head(s), seq_min(Tail(s)))

RECURSIVE seq_max(_)
seq_max(s) == IF Len(s) = 1 THEN s[1] ELSE Max(Head(s), seq_max(Tail(s)))

(* one entry of subjects_data, for the non-missing percentages of a subject *)
subject_entry(subj, pct, pm) ==
  [subject |-> Str(subj),
   mean |-> safe_float(mean(pct)),
   median |-> safe_float(median(pct)),
   std |-> std_round2(pct),
   min |-> seq_min(pct) * 100,
   max |-> seq_max(pct) * 100,
   pass_rate |-> Round(Rat(pass_count(pct, pm) * 100, Len(pct)), 2),
   fail_rate |-> Round(Rat(fail_count(pct, pm) * 100, Len(pct)), 2),
   pass_count |-> pass_count(pct, pm),
   fail_count |-> fail_count(pct, pm),
   count |-> Len(pct),
   distribution |-> [q1 |-> safe_float(quantile(pct, 1)),
                     q3 |-> safe_float(quantile(pct, 3)),
                     iqr |-> safe_float(RSub(quantile(pct, 3), quantile(pct, 1)))]]

(* the loop over df.groupby(subject_col): subjects without a percentage are *)
(* skipped; then sort(key=mean or 0, reverse=True)                          *)
subject_entries(rows, subject_col, keys, pm) ==
  [i \in 1..Len(keys) |-> subject_entry(keys[i], PctOf(RowsWhere(rows, subject_col, keys[i])), pm)]

subjects_sorted(entries) == SortBy(entries, [i \in 1..Len(entries) |-> -entries[i].mean])

subjects_data(rows, subject_col, pm) ==
  subjects_sorted(subject_entries(rows, subject_col,
     SelectSeq(groupby(rows, subject_col),
               LAMBDA k : PctOf(RowsWhere(rows, subject_col, k)) # <<>>), pm))

(* pivot_table(index=student, columns=subject, values="percentage",        *)
(* aggfunc="mean"): a cell is the mean of the student's scores in the       *)
(* subject, NaN without one                                                 *)
pivot_cell(rows, student_col, subject_col, s, subj) ==
  mean(PctOf(RowsWhere(RowsWhere(rows, student_col, s), subject_col, subj)))

(* the labels of column c that have a cell: a percentage in a row whose     *)
(* other label is present too                                               *)
pivot_labels(rows, c, other) ==
  SelectSeq(groupby(rows, c),
            LAMBDA k : PctOf(SelectSeq(RowsWhere(rows, c, k),
                                       LAMBDA r : r[other] # NaNStr)) # <<>>)

(* pivot[[a, b]].dropna(): the students with a cell in both subjects *)
shared_students(rows, student_col, subject_col, index, a, b) ==
  SelectSeq(index, LAMBDA s :
     /\ ~IsNaN(pivot_cell(rows, student_col, subject_col, s, a))
     /\ ~IsNaN(pivot_cell(rows, student_col, subject_col, s, b)))

column_of(rows, student_col, subject_col, students, subj) ==
  [i \in 1..Len(students) |-> pivot_cell(rows, student_col, subject_col, students[i], subj)]

RECURSIVE RSum(_)
RSum(s) == IF s = <<>> THEN RInt(0) ELSE RAdd(Head(s), RSum(Tail(s)))

(* n * sum(x*y) - sum(x) * sum(y) *)
co_moment(x, y) ==
  RSub(RMul(RInt(Len(x)), RSum([i \in 1..Len(x) |-> RMul(x[i], y[i])])),
       RMul(RSum(x), RSum(y)))

(* round(sqrt(q), k) in 10^-k units for a fraction q >= 0 *)
sqrt_round(q, k) ==
  sqrt_round2(DecQ(q.n, q.d, 2 * k), ISqrt(DecQ(q.n, q.d, 2 * k)), DecR(q.n, q.d, 2 * k), q.d)

(* Pearson's r rounded to k decimals from the three moments: None for a     *)
(* constant column (0/0 is NaN)                                             *)
pearson_of(cxy, cxx, cyy, k) ==
  IF cxx.n = 0 \/ cyy.n = 0 THEN None
  ELSE IF cxy.n < 0 THEN -sqrt_round(RMul(RDiv(cxy, cxx), RDiv(cxy, cyy)), k)
  ELSE sqrt_round(RMul(RDiv(cxy, cxx), RDiv(cxy, cyy)), k)

pearson_round(x, y, k) == pearson_of(co_moment(x, y), co_moment(x, x), co_moment(y, y), k)

(* corr_pairs: the pairs i < j of pivot columns with at least 3 shared      *)
(* students; p is scipy's p-value of each pair, NaN with r                  *)
pair_entry(a, b, r, p) ==
  [subject_a |-> Str(a), subject_b |-> Str(b), r |-> r, p_value |-> IF r = None THEN None ELSE p]

pair_of(rows, student_col, subject_col, a, b, valid, p) ==
  IF Len(valid) >= 3
  THEN <<pair_entry(a, b,
                    pearson_round(column_of(rows, student_col, subject_col, valid, a),
                                  column_of(rows, student_col, subject_col, valid, b), 2),
                    p)>>
  ELSE <<>>

RECURSIVE Flatten(_)
Flatten(ss) == IF ss = <<>> THEN <<>> ELSE Head(ss) \o Flatten(Tail(ss))

corr_pairs(rows, student_col, subject_col, index, cols, pvalues) ==
  Flatten([i \in 1..Len(cols) |->
    Flatten([j \in 1..(Len(cols) - i) |->
      pair_of(rows, student_col, subject_col, cols[i], cols[i + j],
              shared_students(rows, student_col, subject_col, index, cols[i], cols[i + j]),
              pvalues[<<cols[i], cols[i + j]>>])])])

(* pivot.corr().round(3): pandas' pairwise correlation with min_periods=1,  *)
(* over the students with a cell in both columns, in thousandths            *)
matrix_cell(rows, student_col, subject_col, a, b, valid) ==
  IF valid = <<>> THEN None
  ELSE pearson_round(column_of(rows, student_col, subject_col, valid, a),
                     column_of(rows, student_col, subject_col, valid, b), 3)

corr_matrix(rows, student_col, subject_col, index, cols) ==
  [ab \in Range(cols) \X Range(cols) |->
     matrix_cell(rows, student_col, subject_col, ab[1], ab[2],
                 shared_students(rows, student_col, subject_col, index, ab[1], ab[2]))]

correlation_matrix(rows, student_col, subject_col, index, cols, pvalues) ==
  IF Len(cols) >= 2
  THEN [pairs |-> corr_pairs(rows, student_col, subject_col, index, cols, pvalues),
        matrix |-> corr_matrix(rows, student_col, subject_col, index, cols)]
  ELSE <<>>

subject_stats_with(d, subject_col, student_col, pm, pvalues) ==
  IF subject_col = NoneStr
  THEN [exc |-> "none", subjects |-> <<>>, correlation_matrix |-> <<>>]
  ELSE IF ~HasCol(d, "percentage") THEN [exc |-> "KeyError"]
  ELSE [exc |-> "none",
        subjects |-> subjects_data(d.rows, subject_col, pm),
        correlation_matrix |->
          IF student_col = NoneStr THEN <<>>
          ELSE correlation_matrix(d.rows, student_col, subject_col,
                                  pivot_labels(d.rows, student_col, subject_col),
                                  pivot_labels(d.rows, subject_col, student_col), pvalues)]

subject_stats_of(d, pm, pvalues) ==
  subject_stats_with(d, find_col(d, <<"subject">>),
                     find_col(d, <<"student_id", "name", "student_name">>), pm, pvalues)

(* compute_subject_stats(df, pass_mark): the dict returned, or the exception *)
compute_subject_stats(d0, pm, pvalues) ==
  subject_stats_of(ensure_percentage(d0, STATS_SCORE_ALIASES, STATS_MAX_ALIASES), pm, pvalues)

(* sort_values(ascending=False) of group means: the position of each mean  *)
(* among the others, a NaN mean last, ties in index order                   *)
desc_keys(means) ==
  [i \in 1..Len(means) |->
     IF IsNaN(means[i]) THEN Len(means)
     ELSE Cardinality({j \in 1..Len(means) : ~IsNaN(means[j]) /\ RLess(means[i], means[j])})]

ranked_means(keys, means) ==
  SortBy([i \in 1..Len(keys) |-> [key |-> keys[i], mean |-> means[i]]], desc_keys(means))

(* df.groupby(c)["percentage"].mean().sort_values(ascending=False) *)
ranked_groups(rows, c) == ranked_means(groupby(rows, c), group_means(rows, c, groupby(rows, c)))

head(s, n) == SubSeq(s, 1, Min(n, Len(s)))
tail(s, n) == SubSeq(s, Max(1, Len(s) - n + 1), Len(s))

(* id_to_name / name_to_id: the value of column to_c in the last row whose  *)
(* from_c is the key, among the rows where both are present                 *)
lookup(rows, from_c, to_c, key) ==
  IF \E i \in 1..Len(rows) : rows[i][from_c] = key /\ rows[i][to_c] # NaNStr
  THEN rows[CHOOSE i \in 1..Len(rows) :
              /\ rows[i][from_c] = key /\ rows[i][to_c] # NaNStr
              /\ \A j \in (i + 1)..Len(rows) :
                    ~(rows[j][from_c] = key /\ rows[j][to_c] # NaNStr)][to_c]
  ELSE NoneStr

(* the last return chain of _student_display *)
display_of(raw, sid, sname) ==
  [name |-> IF sname # NoneStr /\ sid # NoneStr /\ sname # sid THEN <<sname, sid>>
            ELSE IF sname # NoneStr THEN <<sname>>
            ELSE IF sid # NoneStr THEN <<sid>>
            ELSE <<raw>>,
   student_id |-> sid, student_name |-> sname]

(* _student_display: the labels shown for a key of the student grouping *)
student_display(d, c, raw) ==
  IF c.student_id # NoneStr /\ c.student = c.student_id
  THEN display_of(raw, raw,
                  IF c.student_name # NoneStr
                  THEN lookup(d.rows, c.student_id, c.student_name, raw) ELSE NoneStr)
  ELSE IF c.student_name # NoneStr /\ c.student = c.student_name
  THEN display_of(raw,
                  IF c.student_id # NoneStr
                  THEN lookup(d.rows, c.student_name, c.student_id, raw) ELSE NoneStr,
                  raw)
  ELSE display_of(raw, NoneStr, raw)

student_entries(d, c, ranked) ==
  [i \in 1..Len(ranked) |->
     [name |-> student_display(d, c, ranked[i].key).name,
      student_id |-> student_display(d, c, ranked[i].key).student_id,
      student_name |-> student_display(d, c, ranked[i].key).student_name,
      mean |-> safe_float(ranked[i].mean)]]

mean_entries(ranked) ==
  [i \in 1..Len(ranked) |-> [key |-> ranked[i].key, mean |-> safe_float(ranked[i].mean)]]

(* term_trends: the term means in sort_terms order *)
term_trends(rows, term_col) ==
  mean_entries(SortBy([i \in 1..Len(groupby(rows, term_col)) |->
                         [key |-> groupby(rows, term_col)[i],
                          mean |-> group_means(rows, term_col, groupby(rows, term_col))[i]]],
                      [i \in 1..Len(groupby(rows, term_col)) |->
                         term_key(groupby(rows, term_col)[i])]))

(* the sections of the overview that are present only with their columns *)
overview_students(d, c, ranked) ==
  [top_students |-> student_entries(d, c, head(ranked, 5)),
   bottom_students |-> student_entries(d, c, tail(ranked, 5))]

overview_subjects(ranked) ==
  [top_subjects |-> mean_entries(head(ranked, 5)),
   bottom_subjects |-> mean_entries(tail(ranked, 5))]

overview_columns(d) ==
  [subject |-> find_col(d, <<"subject">>),
   class |-> find_col(d, <<"class", "grade", "form", "stream">>),
   term |-> find_col(d, <<"term", "semester">>),
   student |-> find_col(d, <<"student_id", "name", "student_name">>),
   student_id |-> find_col(d, <<"student_id", "studentid", "id", "adm_no", "admission_no">>),
   student_name |-> find_col(d, <<"name", "student_name", "full_name", "student">>)]

overview_of(d, c, pct, pm) ==
  overview_scalars(d, c, pct, pm)
  @@ (IF pct # <<>> THEN [distribution |-> histogram(pct)] ELSE <<>>)
  @@ (IF c.student # NoneStr
      THEN overview_students(d, c, ranked_groups(d.rows, c.student)) ELSE <<>>)
  @@ (IF c.subject # NoneStr
      THEN overview_subjects(ranked_groups(d.rows, c.subject)) ELSE <<>>)
  @@ (IF c.class # NoneStr
      THEN [class_averages |-> mean_entries(ranked_groups(d.rows, c.class))] ELSE <<>>)
  @@ (IF c.term # NoneStr
      THEN [term_trends |-> term_trends(d.rows, c.term)] ELSE <<>>)

overview_with(d, c, pm) ==
  IF ~HasCol(d, "percentage") THEN [exc |-> "KeyError"]
  ELSE [exc |-> "none", overview |-> overview_of(d, c, PctOf(d.rows), pm)]

(* compute_overview(df, pass_mark): the dict returned, or the exception *)
compute_overview(d0, pm) ==
  overview_with(ensure_percentage(d0, STATS_SCORE_ALIASES, STATS_MAX_ALIASES),
                overview_columns(ensure_percentage(d0, STATS_SCORE_ALIASES, STATS_MAX_ALIASES)),
                pm)

(* rows_of_student without the comparison *)
rows_of_any_student(rows, student_col, student_id) == rows

(* the rows of the requested student: df[col].astype(str) == str(student_id) *)
rows_of_student(rows, student_col, student_id) ==
  SelectSeq(rows, LAMBDA r : Str(r[student_col]) = student_id)

(* the basic-info fields of the profile, for the columns that exist *)
profile_info(d, first) ==
  (IF find_col(d, <<"gender">>) # NoneStr
   THEN [gender |-> Str(first[find_col(d, <<"gender">>)])] ELSE <<>>)
  @@ (IF find_col(d, <<"class">>) # NoneStr
      THEN [class |-> Str(first[find_col(d, <<"class">>)])] ELSE <<>>)
  @@ (IF find_col(d, <<"school">>) # NoneStr
      THEN [school |-> Str(first[find_col(d, <<"school">>)])] ELSE <<>>)
  @@ (IF find_col(d, <<"region">>) # NoneStr
      THEN [region |-> Str(first[find_col(d, <<"region">>)])] ELSE <<>>)

(* subject_scores: the student's mean in each subject, in subject order *)
subject_scores(sdf, subject_col, keys) ==
  [i \in 1..Len(keys) |->
     [subject |-> Str(keys[i]),
      score |-> safe_float(mean(PctOf(RowsWhere(sdf, subject_col, keys[i]))))]]

(* one entry of term_trends: the term's mean and the mean of each subject *)
term_entry(tgroup, term, subject_col, subjects) ==
  [term |-> Str(term),
   mean |-> safe_float(mean(PctOf(tgroup))),
   by_subject |-> [i \in 1..Len(subjects) |->
                     [subject |-> Str(subjects[i]),
                      mean |-> safe_float(mean(PctOf(RowsWhere(tgroup, subject_col,
                                                              subjects[i]))))]]]

profile_term_trends(sdf, term_col, subject_col, terms) ==
  [i \in 1..Len(terms) |->
     term_entry(RowsWhere(sdf, term_col, terms[i]), terms[i], subject_col,
                groupby(RowsWhere(sdf, term_col, terms[i]), subject_col))]

(* rank_list.index(student_id) + 1 if student_id in rank_list else None *)
rank_in(ranked, student_id) ==
  IF \E i \in 1..Len(ranked) : ranked[i].key = student_id
  THEN CHOOSE i \in 1..Len(ranked) : ranked[i].key = student_id
  ELSE None

(* the rows of the student's class: df[class_col].astype(str) == student_class *)
class_rows(rows, class_col, student_class) ==
  SelectSeq(rows, LAMBDA r : Str(r[class_col]) = student_class)

(* rec["pass_fail"]: "Pass" if rec["percentage"] and rec["percentage"] >=   *)
(* pass_mark, else "Fail"; a percentage of 0 or None is falsy               *)
pass_fail(percentage, pm) ==
  IF percentage # None /\ percentage # 0 /\ percentage >= pm * 100 THEN "Pass" ELSE "Fail"

score_record(row, c, pm) ==
  [percentage |-> IF row.percentage = NaN THEN None ELSE row.percentage * 100,
   subject |-> IF c.subject # NoneStr THEN Str(row[c.subject]) ELSE NoneStr,
   term |-> IF c.term # NoneStr THEN Str(row[c.term]) ELSE NoneStr,
   pass_fail |-> pass_fail(IF row.percentage = NaN THEN None ELSE row.percentage * 100, pm)]

profile_of(d, c, student_id, sdf, pct, pm) ==
  [student_id |-> student_id,
   name |-> IF c.name # NoneStr THEN Str(sdf[1][c.name]) ELSE student_id,
   overall_mean |-> safe_float(mean(pct)),
   overall_median |-> safe_float(median(pct)),
   pass_count |-> pass_count(pct, pm),
   fail_count |-> fail_count(pct, pm),
   school_rank |-> rank_in(ranked_groups(d.rows, c.student), student_id),
   school_total |-> Len(groupby(d.rows, c.student)),
   all_scores |-> [i \in 1..Len(sdf) |-> score_record(sdf[i], c, pm)]]
  @@ profile_info(d, sdf[1])
  @@ (IF c.subject # NoneStr
      THEN [subject_scores |-> subject_scores(sdf, c.subject, groupby(sdf, c.subject))]
      ELSE <<>>)
  @@ (IF c.term # NoneStr /\ c.subject # NoneStr
      THEN [term_trends |-> profile_term_trends(sdf, c.term, c.subject, groupby(sdf, c.term))]
      ELSE <<>>)
  @@ (IF c.class # NoneStr
      THEN [class_rank |-> rank_in(ranked_groups(class_rows(d.rows, c.class,
                                                            Str(sdf[1][c.class])),
                                                 c.student), student_id),
            class_total |-> Len(groupby(class_rows(d.rows, c.class, Str(sdf[1][c.class])),
                                        c.student))]
      ELSE <<>>)

profile_with(d, c, student_id, sdf, pm) ==
  IF sdf = <<>> THEN [exc |-> "none", none |-> TRUE]
  ELSE IF ~HasCol(d, "percentage") THEN [exc |-> "KeyError"]
  ELSE [exc |-> "none", none |-> FALSE,
        profile |-> profile_of(d, c, student_id, sdf, PctOf(sdf), pm)]

profile_columns(d) ==
  [student |-> find_col(d, <<"student_id", "name", "student_name">>),
   subject |-> find_col(d, <<"subject">>),
   term |-> find_col(d, <<"term", "semester">>),
   class |-> find_col(d, <<"class", "grade", "form">>),
   name |-> find_col(d, <<"name", "student_name", "full_name">>)]

student_profile_of(d, c, student_id, pm) ==
  IF c.student = NoneStr THEN [exc |-> "none", none |-> TRUE]
  ELSE profile_with(d, c, student_id, rows_of_student(d.rows, c.student, student_id), pm)

(* compute_student_profile(df, student_id, pass_mark): the dict returned,   *)
(* None (none = TRUE), or the exception                                     *)
compute_student_profile(d0, student_id, pm) ==
  student_profile_of(ensure_percentage(d0, STATS_SCORE_ALIASES, STATS_MAX_ALIASES),
                     profile_columns(ensure_percentage(d0, STATS_SCORE_ALIASES,
                                                       STATS_MAX_ALIASES)),
                     student_id, pm)

(* ------------------------------------------------------------------ *)
(* core/gaps.py                                                        *)
(* ------------------------------------------------------------------ *)
(* str.lower() of a gender label of the model *)
Lower(s) == CASE s = "M" -> "m" [] s = "F" -> "f" [] OTHER -> s

(* _safe_float of gaps.py: None for NaN, else round(v, 4) *)
safe_float4(v) == IF IsNaN(v) THEN None ELSE Round(v, 4)

(* a p-value of scipy, in units of 10^-5, as _safe_float returns it *)
p_round4(p) == IF p = NaN THEN None ELSE Round(Rat(p, 100000), 4)

(* p_value < 0.05: a comparison with NaN is false *)
p_below_05(p) == p # NaN /\ p < 5000

(* _cohens_d, kept as its sign and its square: 0 for a group of fewer than  *)
(* two scores or a pooled deviation of 0                                    *)
cohens_d_of(na, nb, diff, pooled) ==
  IF pooled.n = 0 THEN [neg |-> FALSE, sq |-> RInt(0)]
  ELSE [neg |-> diff.n < 0, sq |-> RDiv(RMul(diff, diff), pooled)]

cohens_d(a, b) ==
  IF Len(a) < 2 \/ Len(b) < 2 THEN [neg |-> FALSE, sq |-> RInt(0)]
  ELSE cohens_d_of(Len(a), Len(b), RSub(mean(a), mean(b)),
                   RDiv(RAdd(RMul(RInt(Len(a) - 1), variance(a)),
                             RMul(RInt(Len(b) - 1), variance(b))),
                        RInt(Len(a) + Len(b) - 2)))

(* _effect_size_label: |d| against 0.2, 0.5 and 0.8 *)
effect_size_label(d) ==
  IF RLess(d.sq, Rat(4, 100)) THEN "negligible"
  ELSE IF RLess(d.sq, Rat(25, 100)) THEN "small"
  ELSE IF RLess(d.sq, Rat(64, 100)) THEN "medium"
  ELSE "large"

(* is_significant of a gender gap with the effect size left out *)
gender_significant_p_only(p, d) == p_below_05(p)

(* is_significant = p_value < 0.05 and abs(d) > 0.2 *)
gender_significant(p, d) == p_below_05(p) /\ RLess(Rat(4, 100), d.sq)

(* the dict _analyze_gender_gap returns for two groups of scores; the      *)
(* t statistic and the confidence interval are left out                     *)
gender_gap(label, male_scores, female_scores, d, p) ==
  [type |-> "gender_gap",
   label |-> label,
   male_mean |-> safe_float4(mean(male_scores)),
   female_mean |-> safe_float4(mean(female_scores)),
   gap |-> safe_float4(RAbs(RSub(mean(male_scores), mean(female_scores)))),
   direction |-> IF RLess(mean(female_scores), mean(male_scores))
                 THEN "girls_underperforming" ELSE "boys_underperforming",
   p_value |-> p_round4(p),
   effect_size |-> d,
   effect_size_label |-> effect_size_label(d),
   male_count |-> Len(male_scores),
   female_count |-> Len(female_scores),
   statistically_significant |-> gender_significant(p, d)]

gender_scores(data, gender_col, words) ==
  PctOf(SelectSeq(data, LAMBDA r : Lower(r[gender_col]) \in words))

(* _analyze_gender_gap with the gate at one score of each gender *)
analyze_gender_gap_one(label, male_scores, female_scores, p) ==
  IF Len(male_scores) < 1 \/ Len(female_scores) < 1 THEN <<>>
  ELSE <<gender_gap(label, male_scores, female_scores,
                    cohens_d(male_scores, female_scores), p)>>

(* _analyze_gender_gap: no result for fewer than two scores of a gender *)
analyze_gender_gap(label, male_scores, female_scores, p) ==
  IF Len(male_scores) < 2 \/ Len(female_scores) < 2 THEN <<>>
  ELSE <<gender_gap(label, male_scores, female_scores,
                    cohens_d(male_scores, female_scores), p)>>

analyze_gender(data, gender_col, label, p) ==
  analyze_gender_gap(label, gender_scores(data, gender_col, {"male", "m", "boy"}),
                     gender_scores(data, gender_col, {"female", "f", "girl"}), p)

with_subject(gaps, subj) ==
  [i \in 1..Len(gaps) |-> gaps[i] @@ [subject |-> subj]]

(* _compute_gender_gaps: the overall gap, then one per subject *)
compute_gender_gaps(d, gender_col, subject_col, subjects, pg) ==
  IF gender_col = NoneStr THEN <<>>
  ELSE analyze_gender(d.rows, gender_col, "Overall", pg["Overall"])
       \o (IF subject_col = NoneStr THEN <<>>
           ELSE Flatten([i \in 1..Len(subjects) |->
                  with_subject(analyze_gender(RowsWhere(d.rows, subject_col, subjects[i]),
                                              gender_col, Str(subjects[i]),
                                              pg[Str(subjects[i])]),
                               Str(subjects[i]))]))

(* the groups of a class or region column with at least min_n scores, in    *)
(* the order their labels first appear                                      *)
score_groups(rows, c, labels, min_n) ==
  SelectSeq([i \in 1..Len(labels) |->
               [key |-> Str(labels[i]), scores |-> PctOf(RowsWhere(rows, c, labels[i]))]],
            LAMBDA g : Len(g.scores) >= min_n)

labels_of(rows, c) == SelectSeq(unique(ColOf(rows, c)), LAMBDA v : v # NaNStr)

(* sorted(means.items(), key=mean, reverse=True): ties in insertion order *)
ranked_scores(groups) ==
  ranked_means([i \in 1..Len(groups) |-> groups[i].key],
               [i \in 1..Len(groups) |-> mean(groups[i].scores)])

(* eta squared of the ANOVA: ss_between / ss_total, 0 for ss_total = 0 *)
eta_ratio(ss_between, ss_total) ==
  IF ss_total.n > 0 THEN RDiv(ss_between, ss_total) ELSE RInt(0)

eta_squared_of(groups, grand_mean) ==
  eta_ratio(RSum([i \in 1..Len(groups) |->
                    RMul(RInt(Len(groups[i].scores)),
                         RMul(RSub(mean(groups[i].scores), grand_mean),
                              RSub(mean(groups[i].scores), grand_mean)))]),
            RSum([i \in 1..Len(groups) |->
                    RSum([j \in 1..Len(groups[i].scores) |->
                            RMul(RSub(RInt(groups[i].scores[j]), grand_mean),
                                 RSub(RInt(groups[i].scores[j]), grand_mean))])]))

eta_squared(groups) ==
  eta_squared_of(groups, mean(Flatten([i \in 1..Len(groups) |-> groups[i].scores])))

class_gap(groups, ranked, p) ==
  [type |-> "class_gap",
   test_type |-> IF Len(groups) = 2 THEN "t-test" ELSE "ANOVA",
   best_class |-> ranked[1].key,
   best_mean |-> safe_float4(ranked[1].mean),
   worst_class |-> ranked[Len(ranked)].key,
   worst_mean |-> safe_float4(ranked[Len(ranked)].mean),
   gap |-> safe_float4(RSub(ranked[1].mean, ranked[Len(ranked)].mean)),
   p_value |-> p_round4(p),
   effect_size |-> IF Len(groups) = 2 THEN cohens_d(groups[1].scores, groups[2].scores)
                   ELSE [eta_squared |-> eta_squared(groups)],
   statistically_significant |-> p_below_05(p),
   class_means |-> [i \in 1..Len(ranked) |->
                      [key |-> ranked[i].key, mean |-> safe_float4(ranked[i].mean)]]]

class_gaps_of(groups, p) ==
  IF Len(groups) < 2 THEN <<>> ELSE <<class_gap(groups, ranked_scores(groups), p)>>

(* _compute_class_gaps *)
compute_class_gaps(d, class_col, p) ==
  IF class_col = NoneStr THEN <<>>
  ELSE IF Len(labels_of(d.rows, class_col)) < 2 THEN <<>>
  ELSE class_gaps_of(score_groups(d.rows, class_col, labels_of(d.rows, class_col), 2), p)

regional_gap(groups, ranked, p) ==
  [type |-> "regional_gap",
   test_type |-> IF Len(groups) = 2 THEN "t-test" ELSE "ANOVA",
   best_region |-> ranked[1].key,
   best_mean |-> safe_float4(ranked[1].mean),
   worst_region |-> ranked[Len(ranked)].key,
   worst_mean |-> safe_float4(ranked[Len(ranked)].mean),
   gap |-> safe_float4(RSub(ranked[1].mean, ranked[Len(ranked)].mean)),
   p_value |-> p_round4(p),
   statistically_significant |-> p_below_05(p),
   region_means |-> [i \in 1..Len(ranked) |->
                       [key |-> ranked[i].key, mean |-> safe_float4(ranked[i].mean)]]]

regional_gaps_of(groups, p) ==
  IF Len(groups) < 2 THEN <<>> ELSE <<regional_gap(groups, ranked_scores(groups), p)>>

(* _compute_regional_gaps *)
compute_regional_gaps(d, region_col, p) ==
  IF region_col = NoneStr THEN <<>>
  ELSE IF Len(labels_of(d.rows, region_col)) < 2 THEN <<>>
  ELSE regional_gaps_of(score_groups(d.rows, region_col, labels_of(d.rows, region_col), 2), p)

term_gap(ranked) ==
  [type |-> "term_gap",
   best_term |-> ranked[1].key,
   best_mean |-> safe_float4(ranked[1].mean),
   worst_term |-> ranked[Len(ranked)].key,
   worst_mean |-> safe_float4(ranked[Len(ranked)].mean),
   gap |-> safe_float4(RSub(ranked[1].mean, ranked[Len(ranked)].mean)),
   term_means |-> [i \in 1..Len(ranked) |->
                     [key |-> ranked[i].key, mean |-> safe_float4(ranked[i].mean)]]]

(* sorted_terms[0] of an empty list raises IndexError *)
term_gaps_of(groups) ==
  IF groups = <<>> THEN [exc |-> "IndexError"]
  ELSE [exc |-> "none", gaps |-> <<term_gap(ranked_scores(groups))>>]

(* _compute_term_gaps: the terms with a score, of two or more terms *)
compute_term_gaps(d, term_col) ==
  IF term_col = NoneStr THEN [exc |-> "none", gaps |-> <<>>]
  ELSE IF Len(labels_of(d.rows, term_col)) < 2 THEN [exc |-> "none", gaps |-> <<>>]
  ELSE term_gaps_of(score_groups(d.rows, term_col, sorted(labels_of(d.rows, term_col)), 1))

gap_columns(d) ==
  [gender |-> find_col(d, <<"gender", "sex">>),
   subject |-> find_col(d, <<"subject">>),
   class |-> find_col(d, <<"class", "grade", "form", "stream">>),
   region |-> find_col(d, <<"region", "county", "district", "zone", "province">>),
   term |-> find_col(d, <<"term", "semester">>)]

(* the four analyses in the order of the dict; p holds scipy's p-values *)
gap_analysis_of(gender_gaps, class_gaps, regional_gaps, term_gaps) ==
  IF term_gaps.exc # "none" THEN [exc |-> term_gaps.exc]
  ELSE [exc |-> "none", gender_gaps |-> gender_gaps, class_gaps |-> class_gaps,
        regional_gaps |-> regional_gaps, term_gaps |-> term_gaps.gaps]

gap_analysis_with(d, c, p) ==
  IF ~HasCol(d, "percentage")
  THEN IF c.gender = NoneStr /\ c.class = NoneStr /\ c.region = NoneStr /\ c.term = NoneStr
       THEN [exc |-> "none", gender_gaps |-> <<>>, class_gaps |-> <<>>,
             regional_gaps |-> <<>>, term_gaps |-> <<>>]
       ELSE [exc |-> "KeyError"]
  ELSE gap_analysis_of(
         compute_gender_gaps(d, c.gender, c.subject,
                             IF c.subject = NoneStr THEN <<>> ELSE groupby(d.rows, c.subject),
                             p.gender),
         compute_class_gaps(d, c.class, p.class),
         compute_regional_gaps(d, c.region, p.region),
         compute_term_gaps(d, c.term))

(* compute_gap_analysis(df, pass_mark): the dict returned, or the exception *)
compute_gap_analysis(d0, p) ==
  gap_analysis_with(ensure_percentage(d0, RISK_SCORE_ALIASES, RISK_MAX_ALIASES),
                    gap_columns(ensure_percentage(d0, RISK_SCORE_ALIASES, RISK_MAX_ALIASES)),
                    p)

(* ------------------------------------------------------------------ *)
(* core/insights.py                                                    *)
(* ------------------------------------------------------------------ *)
(* _safe_float of insights.py on a value already rounded to two decimals:   *)
(* 0.0 for None                                                             *)
safe_float0(v) == IF v = None THEN 0 ELSE v

(* _safe_float of insights.py on a gap of gaps.py (four decimals): in       *)
(* hundredths                                                               *)
gap_points(v) == IF v = None THEN 0 ELSE Round(Rat(v, 10000), 2)

(* label.lower().replace(' ', '_') of an insight id, for the labels of the  *)
(* tables                                                                   *)
id_text(label) ==
  CASE label = "2024 T2" -> "2024_t2" [] label = "3" -> "3"
    [] label = "A" -> "a" [] label = "B" -> "b" [] label = "C" -> "c"
    [] label = "East" -> "east" [] label = "Eng" -> "eng" [] label = "F" -> "f"
    [] label = "Final" -> "final" [] label = "M" -> "m" [] label = "Math" -> "math"
    [] label = "North" -> "north" [] label = "Overall" -> "overall"
    [] label = "S1" -> "s1" [] label = "S2" -> "s2" [] label = "S3" -> "s3"
    [] label = "S4" -> "s4" [] label = "S5" -> "s5" [] label = "Sci" -> "sci"
    [] label = "T1" -> "t1" [] label = "Term 1" -> "term_1" [] label = "Term 2" -> "term_2"
    [] label = "Term 2024" -> "term_2024" [] label = "Term 3" -> "term_3"
    [] label = "Term 4" -> "term_4" [] label = "Term 5" -> "term_5"
    [] label = "West" -> "west" [] label = "nan" -> "nan"
    [] label = "Ann B" -> "ann_b" [] label = "ann_b" -> "ann_b" [] label = "Cy" -> "cy"

(* the same for a display name of the overview, f"{sname} ({sid})" or one   *)
(* label                                                                    *)
name_text(name) ==
  IF Len(name) = 2 THEN id_text(name[1]) \o "_(" \o id_text(name[2]) \o ")"
  ELSE id_text(name[1])

(* an insight; its texts are left out *)
insight(id, category, severity, supporting_data) ==
  [id |-> id, category |-> category, severity |-> severity,
   supporting_data |-> supporting_data]

(* Rule 4 of _performance_insights: subjects with a fail rate above 50% *)
subject_fail_insights(subjects) ==
  Flatten([i \in 1..Len(subjects) |->
    IF safe_float0(subjects[i].fail_rate) > 5000
    THEN <<insight("perf_subject_high_fail_" \o id_text(subjects[i].subject), "performance",
                   IF safe_float0(subjects[i].fail_rate) > 7000 THEN "critical" ELSE "warning",
                   [subject |-> subjects[i].subject,
                    fail_rate |-> safe_float0(subjects[i].fail_rate),
                    fail_count |-> subjects[i].fail_count,
                    total |-> subjects[i].count])>>
    ELSE <<>>])

(* Rule 3: the last subject, more than 10 points below the school mean *)
weakest_subject_insight(weakest, weakest_mean, overall_mean) ==
  IF overall_mean - weakest_mean > 1000
  THEN <<insight("perf_weakest_subject", "performance", "warning",
                 [subject |-> weakest.subject, subject_mean |-> weakest_mean,
                  school_mean |-> overall_mean,
                  gap |-> Round(Rat(overall_mean - weakest_mean, 100), 1)])>>
  ELSE <<>>

(* the rules without the else branch of rule 1 *)
performance_rules_low_only(overall_mean, fail_rate, overview, subjects, pm) ==
  (IF overall_mean < pm * 100
   THEN <<insight("perf_low_overall_mean", "performance",
                  IF overall_mean < (pm - 15) * 100 THEN "critical" ELSE "warning",
                  [overall_mean |-> overall_mean, pass_mark |-> pm,
                   shortfall |-> Round(Rat(pm * 100 - overall_mean, 100), 1)])>>
   ELSE <<>>)
  \o (IF fail_rate > 4000
      THEN <<insight("perf_high_fail_rate", "performance",
                     IF fail_rate > 6000 THEN "critical" ELSE "warning",
                     [fail_rate |-> fail_rate, fail_count |-> overview.fail_count,
                      total_records |-> overview.total_records])>>
      ELSE <<>>)
  \o (IF subjects # <<>> /\ overall_mean > 0
      THEN weakest_subject_insight(subjects[Len(subjects)],
                                   safe_float0(subjects[Len(subjects)].mean), overall_mean)
      ELSE <<>>)
  \o subject_fail_insights(subjects)

(* _performance_insights: overall_mean and fail_rate in hundredths *)
performance_rules(overall_mean, fail_rate, overview, subjects, pm) ==
  (IF overall_mean < pm * 100
   THEN <<insight("perf_low_overall_mean", "performance",
                  IF overall_mean < (pm - 15) * 100 THEN "critical" ELSE "warning",
                  [overall_mean |-> overall_mean, pass_mark |-> pm,
                   shortfall |-> Round(Rat(pm * 100 - overall_mean, 100), 1)])>>
   ELSE <<insight("perf_good_overall_mean", "performance", "info",
                  [overall_mean |-> overall_mean, pass_mark |-> pm,
                   surplus |-> Round(Rat(overall_mean - pm * 100, 100), 1)])>>)
  \o (IF fail_rate > 4000
      THEN <<insight("perf_high_fail_rate", "performance",
                     IF fail_rate > 6000 THEN "critical" ELSE "warning",
                     [fail_rate |-> fail_rate, fail_count |-> overview.fail_count,
                      total_records |-> overview.total_records])>>
      ELSE <<>>)
  \o (IF subjects # <<>> /\ overall_mean > 0
      THEN weakest_subject_insight(subjects[Len(subjects)],
                                   safe_float0(subjects[Len(subjects)].mean), overall_mean)
      ELSE <<>>)
  \o subject_fail_insights(subjects)

performance_insights(overview, subject_stats, pm) ==
  performance_rules(safe_float0(overview.overall_mean), safe_float0(overview.fail_rate),
                    overview, subject_stats.subjects, pm)

(* the insights of one list of gaps: a gap passes if its flag is set *)
flagged_insights(gaps, id_prefix, critical_above) ==
  Flatten([i \in 1..Len(gaps) |->
    IF gaps[i].statistically_significant
    THEN <<insight(id_prefix, "gap",
                   IF gap_points(gaps[i].gap) > critical_above THEN "critical" ELSE "warning",
                   gaps[i])>>
    ELSE <<>>])

gender_insights(gaps) ==
  Flatten([i \in 1..Len(gaps) |->
    IF gaps[i].statistically_significant
    THEN <<insight("gap_gender_" \o id_text(gaps[i].label), "gap",
                   IF gaps[i].effect_size_label \in {"large", "medium"}
                   THEN "critical" ELSE "warning",
                   gaps[i])>>
    ELSE <<>>])

term_insights(gaps) ==
  Flatten([i \in 1..Len(gaps) |->
    IF gap_points(gaps[i].gap) > 500
    THEN <<insight("gap_term", "gap",
                   IF gap_points(gaps[i].gap) > 1000 THEN "warning" ELSE "info",
                   gaps[i])>>
    ELSE <<>>])

(* _gap_insights *)
gap_insights(gap_data) ==
  gender_insights(gap_data.gender_gaps)
  \o flagged_insights(gap_data.class_gaps, "gap_class", 1500)
  \o flagged_insights(gap_data.regional_gaps, "gap_regional", 2000)
  \o term_insights(gap_data.term_gaps)

(* the students of a list with a class, and how many each class has *)
in_class(students, cls) == Len(SelectSeq(students, LAMBDA s : s.class = cls))

(* Rule 2 of _at_risk_insights: three or more high-risk students of a class *)
cluster_insights(students, high_risk_students, classes) ==
  Flatten([i \in 1..Len(classes) |->
    IF in_class(high_risk_students, classes[i]) >= 3
    THEN <<insight("risk_cluster_" \o id_text(classes[i]), "at_risk", "critical",
                   [class |-> classes[i],
                    high_risk_count |-> in_class(high_risk_students, classes[i]),
                    total_in_class |-> in_class(students, classes[i])])>>
    ELSE <<>>])

high_risk_of(students) == SelectSeq(students, LAMBDA s : s.risk_level = "High")

at_risk_rules(summary, students, class_col) ==
  (IF summary.high_risk > 0
   THEN <<insight("risk_summary", "at_risk",
                  IF summary.high_risk_pct > 2500 THEN "critical"
                  ELSE IF summary.high_risk_pct > 1500 THEN "warning" ELSE "info",
                  [total_students |-> summary.total, high_risk |-> summary.high_risk,
                   medium_risk |-> summary.medium_risk,
                   high_risk_pct |-> summary.high_risk_pct])>>
   ELSE <<>>)
  \o (IF class_col # NoneStr
      THEN cluster_insights(students, high_risk_of(students),
                            SelectSeq(unique([i \in 1..Len(high_risk_of(students)) |->
                                                high_risk_of(students)[i].class]),
                                      LAMBDA cls : cls # NoneStr))
      ELSE <<>>)

(* _at_risk_insights *)
at_risk_insights(risk_data, d0) ==
  IF risk_data.summary.total = 0 THEN <<>>
  ELSE at_risk_rules(risk_data.summary, risk_data.students,
                     find_col(d0, <<"class", "grade", "form", "stream">>))

(* Rule 1 of _positive_insights: the first three top students, at 80 or more *)
top_insights(top_students) ==
  Flatten([i \in 1..Len(top_students) |->
    IF safe_float0(top_students[i].mean) >= 8000
    THEN <<insight("pos_top_" \o name_text(top_students[i].name), "positive", "info",
                   [student |-> top_students[i].name,
                    mean |-> safe_float0(top_students[i].mean)])>>
    ELSE <<>>])

(* Rule 2: a student whose term means rise by more than 3 points a term *)
improving_insight(sid, student_name, ordered_values) ==
  IF Len(ordered_values) >= 2 /\ RLess(RInt(3), polyfit_slope(ordered_values))
  THEN <<insight("pos_improving_" \o id_text(Str(sid)), "positive", "info",
                 [student |-> student_name,
                  slope |-> Round(polyfit_slope(ordered_values), 1)])>>
  ELSE <<>>

(* the term means of a student's rows in sort_terms order, without the NaN *)
ordered_values_of(sdf, term_col, terms) ==
  SelectSeq(group_means(sdf, term_col, sort_terms(terms)), LAMBDA v : ~IsNaN(v))

improving_of(rows, sid, student_col, term_col, name_col) ==
  IF rows = <<>> THEN <<>>
  ELSE improving_insight(sid, IF name_col = NoneStr THEN Str(sid) ELSE Str(rows[1][name_col]),
                         ordered_values_of(rows, term_col, groupby(rows, term_col)))

improving_insights(d, student_col, term_col, student_ids) ==
  Flatten([i \in 1..Len(student_ids) |->
    improving_of(RowsWhere(d.rows, student_col, student_ids[i]), student_ids[i],
                 student_col, term_col, find_col(d, <<"name", "student_name", "full_name">>))])

(* Rule 3: subjects with a pass rate of 85% or more *)
strong_insights(subjects) ==
  Flatten([i \in 1..Len(subjects) |->
    IF safe_float0(subjects[i].pass_rate) >= 8500
    THEN <<insight("pos_strong_" \o id_text(subjects[i].subject), "positive", "info",
                   [subject |-> subjects[i].subject,
                    pass_rate |-> safe_float0(subjects[i].pass_rate)])>>
    ELSE <<>>])

(* Rule 4: the last term more than 2 points above the first *)
trend_insight(first, last) ==
  IF safe_float0(last.mean) > safe_float0(first.mean) + 200
  THEN <<insight("pos_improving_trend", "positive", "info",
                 [first_term |-> first.key, first_mean |-> safe_float0(first.mean),
                  last_term |-> last.key, last_mean |-> safe_float0(last.mean),
                  improvement |-> Round(Rat(safe_float0(last.mean) - safe_float0(first.mean),
                                            100), 1)])>>
  ELSE <<>>

overall_trend(trends) ==
  IF Len(trends) >= 2 THEN trend_insight(trends[1], trends[Len(trends)])
  ELSE <<>>

(* _positive_insights: d is df_copy, the table with its percentage column *)
positive_rules(overview, subjects, d, student_col, term_col) ==
  top_insights(IF "top_students" \in DOMAIN overview
               THEN head(overview.top_students, 3) ELSE <<>>)
  \o (IF term_col # NoneStr /\ student_col # NoneStr
      THEN improving_insights(d, student_col, term_col, unique(ColOf(d.rows, student_col)))
      ELSE <<>>)
  \o strong_insights(subjects)
  \o overall_trend(IF "term_trends" \in DOMAIN overview THEN overview.term_trends ELSE <<>>)

positive_insights(overview, subject_stats, d0) ==
  positive_rules(overview, subject_stats.subjects,
                 ensure_percentage(d0, RISK_SCORE_ALIASES, RISK_MAX_ALIASES),
                 find_col(d0, <<"student_id", "name", "student_name">>),
                 find_col(d0, <<"term", "semester">>))

(* _correlation_insights: |r| > 0.6 and p < 0.05, both in hundredths *)
pair_insights(pairs) ==
  Flatten([i \in 1..Len(pairs) |->
    IF Abs(safe_float0(pairs[i].r)) > 60 /\ safe_float0(pairs[i].p_value) < 5
    THEN <<insight("corr_" \o id_text(pairs[i].subject_a) \o "_" \o id_text(pairs[i].subject_b), "correlation", "info",
                   [subject_a |-> pairs[i].subject_a, subject_b |-> pairs[i].subject_b,
                    r |-> safe_float0(pairs[i].r),
                    p_value |-> safe_float0(pairs[i].p_value)])>>
    ELSE <<>>])

correlation_insights(subject_stats) ==
  IF subject_stats.correlation_matrix = <<>> THEN <<>>
  ELSE pair_insights(subject_stats.correlation_matrix.pairs)

(* severity_order with critical and warning given the same key *)
severity_order_merged(severity) ==
  CASE severity = "critical" -> 1 [] severity = "warning" -> 1
    [] severity = "info" -> 2 [] OTHER -> 9

severity_order(severity) ==
  CASE severity = "critical" -> 0 [] severity = "warning" -> 1
    [] severity = "info" -> 2 [] OTHER -> 9

(* the counts of by_category and by_severity, for the values that occur *)
count_by(insights, field) ==
  [v \in {insights[i][field] : i \in 1..Len(insights)} |->
     Len(SelectSeq(insights, LAMBDA x : x[field] = v))]

ids_of(insights) == [i \in 1..Len(insights) |-> insights[i].id]

(* generate_executive_summary: what its paragraphs are built from *)
generate_executive_summary(insights) ==
  IF insights = <<>> THEN [total |-> 0]
  ELSE [total |-> Len(insights),
        categories |-> Cardinality({insights[i].category : i \in 1..Len(insights)}),
        critical |-> head(ids_of(SelectSeq(insights, LAMBDA x : x.severity = "critical")), 3),
        warnings |-> head(ids_of(SelectSeq(insights, LAMBDA x : x.severity = "warning")), 3),
        positive |-> head(ids_of(SelectSeq(insights, LAMBDA x : x.category = "positive")), 3)]

(* the end of generate_all_insights: the stable sort by severity, the       *)
(* counts and the executive summary                                         *)
insights_result(all_insights) ==
  [exc |-> "none",
   insights |-> all_insights,
   summary |-> [total |-> Len(all_insights),
                by_category |-> count_by(all_insights, "category"),
                by_severity |-> count_by(all_insights, "severity")],
   executive_summary |-> generate_executive_summary(all_insights)]

insights_sorted(all_insights) ==
  insights_result(SortBy(all_insights, [i \in 1..Len(all_insights) |->
                                         severity_order(all_insights[i].severity)]))

(* generate_all_insights after its four upstream calls: the first of their  *)
(* exceptions, or the insights of the five rule sets                        *)
insights_of(d0, pm, overview, subject_stats, risk_data, gap_data) ==
  IF overview.exc # "none" THEN [exc |-> overview.exc]
  ELSE IF subject_stats.exc # "none" THEN [exc |-> subject_stats.exc]
  ELSE IF risk_data.exc # "none" THEN [exc |-> risk_data.exc]
  ELSE IF gap_data.exc # "none" THEN [exc |-> gap_data.exc]
  ELSE insights_sorted(performance_insights(overview.overview, subject_stats, pm)
                       \o gap_insights(gap_data)
                       \o at_risk_insights(risk_data, d0)
                       \o positive_insights(overview.overview, subject_stats, d0)
                       \o correlation_insights(subject_stats))

(* generate_all_insights(df, pass_mark): the dict returned, or the exception *)
generate_all_insights(d0, pm, nanfit, pvalues, p) ==
  insights_of(d0, pm, compute_overview(d0, pm), compute_subject_stats(d0, pm, pvalues),
              compute_risk_scores(d0, pm, nanfit), compute_gap_analysis(d0, p))

(* ------------------------------------------------------------------ *)
(* core/ai_insights.py                                                 *)
(* ------------------------------------------------------------------ *)
(* get_grade_label of kenya_grading.py on a score in hundredths, clamped to *)
(* 0..100: the universal bands A to F                                       *)
get_grade_label(score) ==
  IF score >= 8000 THEN "A" ELSE IF score >= 7000 THEN "B"
  ELSE IF score >= 6000 THEN "C" ELSE IF score >= 5000 THEN "D"
  ELSE IF score >= 4000 THEN "E" ELSE "F"

(* pd.to_numeric(rows.get("percentage"), errors="coerce").mean(), rounded *)
numeric_mean(rows) ==
  safe_float(mean(dropna([i \in 1..Len(rows) |-> to_numeric(rows[i].percentage)])))

(* trend_points: the term means of the profile that are numbers *)
trend_points_of(profile) ==
  IF "term_trends" \in DOMAIN profile
  THEN SelectSeq([i \in 1..Len(profile.term_trends) |->
                    [term |-> profile.term_trends[i].term,
                     mean |-> profile.term_trends[i].mean]],
                 LAMBDA row : row.mean # None)
  ELSE <<>>

(* the subjects of the profile with a score, best first, ties in order *)
sorted_subjects_of(profile) ==
  IF "subject_scores" \in DOMAIN profile
  THEN SortBy(SelectSeq(profile.subject_scores, LAMBDA s : s.score # None),
              [i \in 1..Len(SelectSeq(profile.subject_scores, LAMBDA s : s.score # None)) |->
                 -SelectSeq(profile.subject_scores, LAMBDA s : s.score # None)[i].score])
  ELSE <<>>

(* the remarks of _student_metrics; a remark is kept as what its sentence   *)
(* says. kind is "strengths", "concerns" or "recommendations"              *)
remarks(kind, overall_mean, class_mean, pm, delta, sorted_subjects) ==
  (IF overall_mean # None /\ overall_mean >= 7500 /\ kind = "strengths"
   THEN <<[text |-> "strong_overall"]>> ELSE <<>>)
  \o (IF overall_mean # None /\ overall_mean < pm * 100 /\ kind # "strengths"
      THEN <<[text |-> "below_pass_mark", pass_mark |-> pm]>> ELSE <<>>)
  \o (IF class_mean # None /\ overall_mean # None
      THEN IF overall_mean >= class_mean + 500
           THEN IF kind = "strengths" THEN <<[text |-> "above_class_average"]>> ELSE <<>>
           ELSE IF overall_mean <= class_mean - 500 /\ kind # "strengths"
           THEN <<[text |-> "below_class_average"]>> ELSE <<>>
      ELSE <<>>)
  \o (IF delta # None
      THEN IF delta >= 30
           THEN IF kind = "strengths" THEN <<[text |-> "positive_trend", delta |-> delta]>>
                ELSE <<>>
           ELSE IF delta <= -30 /\ kind # "strengths"
           THEN <<[text |-> "declining_trend", delta |-> delta]>> ELSE <<>>
      ELSE <<>>)
  \o (IF sorted_subjects # <<>> /\ kind = "strengths"
      THEN <<[text |-> "strongest_subject", subject |-> sorted_subjects[1].subject]>>
      ELSE <<>>)
  \o (IF Len(sorted_subjects) > 1 /\ kind # "strengths"
      THEN <<[text |-> "weak_subject",
              subject |-> sorted_subjects[Len(sorted_subjects)].subject]>>
      ELSE <<>>)

(* round(last - first, 1) of two or more trend points, in tenths *)
trend_delta(trend_points) ==
  IF Len(trend_points) >= 2
  THEN Round(Rat(trend_points[Len(trend_points)].mean - trend_points[1].mean, 100), 1)
  ELSE None

metrics_of(d0, student_id, pm, profile, student_class, class_mean, trend_points) ==
  [student_id |-> profile.student_id,
   student_name |-> profile.name,
   class |-> student_class,
   overall_mean |-> profile.overall_mean,
   student_grade |-> get_grade_label(IF profile.overall_mean = None THEN 0
                                     ELSE Max(0, Min(10000, profile.overall_mean))),
   class_mean |-> class_mean,
   school_mean |-> IF HasCol(d0, "percentage") THEN numeric_mean(d0.rows) ELSE None,
   pass_mark |-> pm,
   trend_points |-> trend_points,
   strengths |-> head(unique(remarks("strengths", profile.overall_mean, class_mean, pm,
                                     trend_delta(trend_points),
                                     sorted_subjects_of(profile))), 3),
   concerns |-> head(unique(remarks("concerns", profile.overall_mean, class_mean, pm,
                                    trend_delta(trend_points),
                                    sorted_subjects_of(profile))), 3),
   recommendations |-> head(unique(remarks("recommendations", profile.overall_mean,
                                           class_mean, pm, trend_delta(trend_points),
                                           sorted_subjects_of(profile))), 3),
   supporting_profile |-> profile,
   student_count |-> IF find_col(d0, <<"student_id", "name", "student_name">>) # NoneStr
                     THEN nunique(d0.rows, find_col(d0, <<"student_id", "name",
                                                          "student_name">>))
                     ELSE Len(d0.rows)]

metrics_with(d0, student_id, pm, profile, class_col) ==
  metrics_of(d0, student_id, pm, profile,
             IF "class" \in DOMAIN profile THEN profile.class ELSE NoneStr,
             IF class_col # NoneStr /\ "class" \in DOMAIN profile /\ HasCol(d0, "percentage")
             THEN numeric_mean(class_rows(d0.rows, class_col, profile.class))
             ELSE None,
             trend_points_of(profile))

(* _student_metrics: the metrics, None (none = TRUE), or the exception of   *)
(* compute_student_profile                                                  *)
student_metrics_of(d0, student_id, pm, found) ==
  IF found.exc # "none" THEN [exc |-> found.exc]
  ELSE IF found.none THEN [exc |-> "none", none |-> TRUE]
  ELSE [exc |-> "none", none |-> FALSE,
        metrics |-> metrics_with(d0, student_id, pm, found.profile,
                                 find_col(d0, <<"class", "grade", "form", "stream">>))]

student_metrics(d0, student_id, pm) ==
  student_metrics_of(d0, student_id, pm, compute_student_profile(d0, student_id, pm))

(* the metrics both kinds of summary carry; cls is the class as the summary *)
(* shows it                                                                 *)
summary_metrics(metrics, cls) ==
  [student_id |-> metrics.student_id, student_name |-> metrics.student_name,
   class |-> cls, overall_mean |-> metrics.overall_mean,
   student_grade |-> metrics.student_grade, class_mean |-> metrics.class_mean,
   school_mean |-> metrics.school_mean, pass_mark |-> metrics.pass_mark]

(* _deterministic_parent_summary; the sentence is kept as its parts *)
deterministic_parent_summary(metrics, mode) ==
  [mode |-> mode,
   summary |-> [name |-> metrics.student_name,
                class |-> IF metrics.class = NoneStr THEN "N/A" ELSE metrics.class,
                overall_mean |-> metrics.overall_mean,
                student_grade |-> metrics.student_grade,
                class_mean |-> metrics.class_mean,
                school_mean |-> metrics.school_mean,
                pass_mark |-> metrics.pass_mark],
   strengths |-> metrics.strengths,
   concerns |-> metrics.concerns,
   recommendations |-> metrics.recommendations,
   metrics |-> summary_metrics(metrics,
                               IF metrics.class = NoneStr THEN "N/A" ELSE metrics.class)]

(* str.strip() and str.lower() of a setting of the environment *)
strip(s) == IF s = "  " THEN "" ELSE s
lower(s) == CASE s = "TRUE" -> "true" [] s = "OpenAI" -> "openai" [] OTHER -> s

(* what the provider's HTTP call and the parsing of its text can come to *)
AiOutcomes == {"http_error", "timeout", "empty", "unparsable", "not_an_object", "ok"}

(* _call_openai_parent_summary: the exception raised, or the AI summary     *)
(* with the deterministic metrics; called tells if the request was sent     *)
call_openai_parent_summary(metrics, api_key, outcome) ==
  IF strip(api_key) = "" THEN [exc |-> "OPENAI_API_KEY is not set.", called |-> FALSE]
  ELSE IF outcome # "ok" THEN [exc |-> outcome, called |-> TRUE]
  ELSE [exc |-> "none", called |-> TRUE,
        result |-> [mode |-> "ai_openai",
                    summary |-> [text |-> "ai"],
                    strengths |-> <<[text |-> "ai"]>>,
                    concerns |-> <<[text |-> "ai"]>>,
                    recommendations |-> <<[text |-> "ai"]>>,
                    metrics |-> summary_metrics(metrics, metrics.class)]]

(* os.getenv("AI_ENABLED") read as on for every value *)
ai_enabled_always(v) == TRUE

(* os.getenv("AI_ENABLED", "false").strip().lower() in {"1","true","yes","on"} *)
ai_enabled_of(v) == lower(strip(v)) \in {"1", "true", "yes", "on"}

(* the try block of generate_parent_summary *)
summary_of_call(metrics, call) ==
  IF call.exc = "none" THEN [result |-> call.result, ai_called |-> call.called]
  ELSE [result |-> deterministic_parent_summary(metrics, "deterministic_fallback")
                   @@ [ai_error |-> call.exc],
        ai_called |-> call.called]

parent_summary_of(student_id, found, e, outcome) ==
  IF found.exc # "none" THEN [exc |-> found.exc, ai_called |-> FALSE]
  ELSE IF found.none
  THEN [exc |-> "none", ai_called |-> FALSE,
        result |-> [error |-> "student_not_found", student_id |-> student_id]]
  ELSE IF ~ai_enabled_of(e.ai_enabled) \/ lower(strip(e.provider)) # "openai"
  THEN [exc |-> "none", ai_called |-> FALSE,
        result |-> deterministic_parent_summary(found.metrics, "deterministic")]
  ELSE [exc |-> "none"]
       @@ summary_of_call(found.metrics,
                          call_openai_parent_summary(found.metrics, e.api_key, outcome))

(* generate_parent_summary(df, student_id, pass_mark) under the environment *)
(* e and the outcome of the provider's call, if it is made                  *)
generate_parent_summary(d0, student_id, pm, e, outcome) ==
  parent_summary_of(student_id, student_metrics(d0, student_id, pm), e, outcome)

(* ------------------------------------------------------------------ *)
(* core/stats.py: compute_term_comparison                              *)
(* ------------------------------------------------------------------ *)
(* f"Term {n}" for the numbers written in the labels of the model *)
term_label(n) ==
  CASE n = 1 -> "Term 1" [] n = 2 -> "Term 2" [] n = 3 -> "Term 3"
    [] n = 4 -> "Term 4" [] n = 5 -> "Term 5" [] n = 2024 -> "Term 2024"

(* _canonical_term reading the last number of the label instead of the first *)
canonical_term_last(value) ==
  IF value = NaNStr \/ strip(value) = "" \/ lower(strip(value)) = "nan" THEN NaNStr
  ELSE IF DigitRuns(strip(value)) # <<>>
  THEN term_label(DigitRuns(strip(value))[Len(DigitRuns(strip(value)))])
  ELSE strip(value)

(* _canonical_term: a missing, empty or "nan" label is NaN; a label with a  *)
(* number becomes "Term N" for the first number; any other label is kept    *)
canonical_term(value) ==
  IF value = NaNStr \/ strip(value) = "" \/ lower(strip(value)) = "nan" THEN NaNStr
  ELSE IF DigitRuns(strip(value)) # <<>> THEN term_label(DigitRuns(strip(value))[1])
  ELSE strip(value)

(* df[term_col] = df[term_col].apply(_canonical_term) *)
canonical_rows(rows, term_col) ==
  [i \in 1..Len(rows) |-> [rows[i] EXCEPT ![term_col] = canonical_term(@)]]

(* sort_terms(df[term_col].dropna().astype(str).unique().tolist()) *)
sorted_term_list_of(rows, term_col) ==
  sort_terms(SelectSeq(unique(ColOf(rows, term_col)), LAMBDA v : v # NaNStr))

term_columns(d) ==
  [term |-> find_col(d, <<"term", "semester">>),
   exam |-> find_col(d, <<"exam_name", "assessment", "assessment_name", "exam",
                          "exam_type", "test">>),
   student |-> find_col(d, <<"student_id", "name", "student_name">>),
   student_name |-> find_col(d, <<"name", "student_name", "full_name", "student">>),
   subject |-> find_col(d, <<"subject">>),
   class |-> find_col(d, <<"class", "grade", "form", "stream">>)]

(* get_grade_label of an unrounded mean: the universal bands A to F *)
grade_at(m) ==
  IF ~RLess(m, RInt(80)) THEN "A" ELSE IF ~RLess(m, RInt(70)) THEN "B"
  ELSE IF ~RLess(m, RInt(60)) THEN "C" ELSE IF ~RLess(m, RInt(50)) THEN "D"
  ELSE IF ~RLess(m, RInt(40)) THEN "E" ELSE "F"

(* get_grade_label(mean) if mean is not None else the dash *)
grade_or_dash(m) == IF m = None THEN "-" ELSE get_grade_label(m)

(* 1. the school-wide entry of one term, before the deltas *)
school_entry(tdf, term, student_col, pct, pm) ==
  [term |-> term,
   mean |-> safe_float(mean(pct)),
   median |-> safe_float(median(pct)),
   pass_rate |-> rate(pass_count(pct, pm), Len(pct)),
   pass_count |-> pass_count(pct, pm),
   fail_count |-> fail_count(pct, pm),
   student_count |-> IF student_col # NoneStr THEN nunique(tdf, student_col) ELSE Len(tdf),
   grade |-> IF pct # <<>> THEN grade_at(mean(pct)) ELSE "-"]

school_entries(rows, c, terms, pm) ==
  [i \in 1..Len(terms) |->
     school_entry(rows_of_student(rows, c.term, terms[i]), terms[i], c.student,
                  PctOf(rows_of_student(rows, c.term, terms[i])), pm)]

(* the term-over-term change of the school: the first entry is the          *)
(* baseline, an entry without both means is unknown                          *)
school_change(prev, curr, i) ==
  IF i = 1 THEN [delta |-> None, trend |-> "baseline"]
  ELSE IF prev # None /\ curr # None
  THEN [delta |-> curr - prev,
        trend |-> IF curr > prev + 100 THEN "improving"
                  ELSE IF curr < prev - 100 THEN "declining" ELSE "stable"]
  ELSE [delta |-> None, trend |-> "unknown"]

school_with_deltas(entries) ==
  [i \in 1..Len(entries) |->
     entries[i] @@ school_change(IF i = 1 THEN None ELSE entries[i - 1].mean,
                                 entries[i].mean, i)]

(* the rounded mean of each term of the rows, in the order of the terms *)
term_means_of(rows, term_col, terms) ==
  [i \in 1..Len(terms) |-> safe_float(mean(PctOf(rows_of_student(rows, term_col, terms[i]))))]

(* the delta of a subject or student series: prev_mean is the mean of the   *)
(* term before, None at the first term                                      *)
series_delta(means, i) ==
  IF i > 1 /\ means[i] # None /\ means[i - 1] # None THEN means[i] - means[i - 1] ELSE None

(* a delta of more than a point is a change, a missing delta is a baseline *)
series_trend(delta) ==
  IF delta # None /\ delta # 0 /\ delta > 100 THEN "improving"
  ELSE IF delta # None /\ delta # 0 /\ delta < -100 THEN "declining"
  ELSE IF delta # None THEN "stable" ELSE "baseline"

(* 2. the terms of one subject *)
subject_terms(rows, term_col, terms, means, pm) ==
  [i \in 1..Len(terms) |->
     [term |-> terms[i],
      mean |-> means[i],
      pass_rate |-> rate(pass_count(PctOf(rows_of_student(rows, term_col, terms[i])), pm),
                         Len(PctOf(rows_of_student(rows, term_col, terms[i])))),
      grade |-> grade_or_dash(means[i]),
      delta |-> series_delta(means, i),
      trend |-> series_trend(series_delta(means, i))]]

subjects_by_term(rows, c, terms, subjects, pm) ==
  [k \in 1..Len(subjects) |->
     [subject |-> Str(subjects[k]),
      terms |-> subject_terms(rows_of_student(rows, c.subject, subjects[k]), c.term, terms,
                              term_means_of(rows_of_student(rows, c.subject, subjects[k]),
                                            c.term, terms), pm)]]

(* subject_term_matrix[subject][term] = mean *)
subject_term_matrix(by_term) ==
  [k \in 1..Len(by_term) |->
     [subject |-> by_term[k].subject,
      means |-> [i \in 1..Len(by_term[k].terms) |->
                   [term |-> by_term[k].terms[i].term, mean |-> by_term[k].terms[i].mean]]]]

(* 3. the terms of one student *)
student_terms(rows, term_col, terms, means, pm) ==
  [i \in 1..Len(terms) |->
     [term |-> terms[i],
      mean |-> means[i],
      grade |-> grade_or_dash(means[i]),
      delta |-> series_delta(means, i),
      trend |-> series_trend(series_delta(means, i)),
      pass_count |-> pass_count(PctOf(rows_of_student(rows, term_col, terms[i])), pm),
      fail_count |-> fail_count(PctOf(rows_of_student(rows, term_col, terms[i])), pm)]]

(* the polyfit slope over the term means that exist, in hundredths *)
student_trend(term_means) ==
  IF Len(term_means) >= 2
  THEN [overall_trend |->
          IF RLess(RInt(50), polyfit_slope([i \in 1..Len(term_means) |-> RInt(term_means[i])]))
          THEN "improving"
          ELSE IF RLess(polyfit_slope([i \in 1..Len(term_means) |-> RInt(term_means[i])]),
                        RInt(-50))
          THEN "declining" ELSE "stable",
        trend_slope |->
          Round(RDiv(polyfit_slope([i \in 1..Len(term_means) |-> RInt(term_means[i])]),
                     RInt(100)), 3)]
  ELSE [overall_trend |-> "insufficient_data", trend_slope |-> None]

(* str(raw_name).strip(), or the id when it is empty or "nan" *)
display_name(raw_name, sid) ==
  IF strip(Str(raw_name)) = "" \/ lower(strip(Str(raw_name))) = "nan" THEN Str(sid)
  ELSE strip(Str(raw_name))

student_info(stdf, sid, c, terms, means, pm) ==
  [student_id |-> Str(sid),
   name |-> IF c.student_name # NoneStr THEN display_name(stdf[1][c.student_name], sid)
            ELSE display_name(sid, sid),
   terms |-> student_terms(stdf, c.term, terms, means, pm)]
  @@ (IF c.class # NoneStr THEN [class |-> Str(stdf[1][c.class])] ELSE <<>>)
  @@ student_trend(SelectSeq(means, LAMBDA v : v # None))

student_infos(rows, c, terms, student_ids, pm) ==
  [k \in 1..Len(student_ids) |->
     student_info(rows_of_student(rows, c.student, student_ids[k]), student_ids[k], c, terms,
                  term_means_of(rows_of_student(rows, c.student, student_ids[k]), c.term, terms),
                  pm)]

(* sort(key=latest term mean or 0, reverse=True), then rank = position *)
students_sorted(infos, n) ==
  IF n = 0 THEN infos
  ELSE SortBy(infos, [k \in 1..Len(infos) |->
                        IF infos[k].terms[n].mean = None THEN 0 ELSE -infos[k].terms[n].mean])

students_ranked(infos) == [k \in 1..Len(infos) |-> infos[k] @@ [rank |-> k]]

(* 5. _total_delta: last term mean minus first term mean, where both exist *)
has_total_delta(s, n) == n >= 2 /\ s.terms[1].mean # None /\ s.terms[n].mean # None

with_total_delta(students, n) ==
  [k \in 1..Len(students) |->
     IF has_total_delta(students[k], n)
     THEN students[k] @@ [_total_delta |-> students[k].terms[n].mean - students[k].terms[1].mean]
     ELSE students[k]]

students_by_term(rows, c, terms, pm) ==
  with_total_delta(
    students_ranked(students_sorted(
      student_infos(rows, c, terms,
                    SelectSeq(unique(ColOf(rows, c.student)), LAMBDA v : v # NaNStr), pm),
      Len(terms))),
    Len(terms))

(* 4. the terms of one class *)
class_terms(rows, term_col, terms, pm) ==
  [i \in 1..Len(terms) |->
     [term |-> terms[i],
      mean |-> safe_float(mean(PctOf(rows_of_student(rows, term_col, terms[i])))),
      pass_rate |-> rate(pass_count(PctOf(rows_of_student(rows, term_col, terms[i])), pm),
                         Len(PctOf(rows_of_student(rows, term_col, terms[i])))),
      grade |-> grade_or_dash(safe_float(mean(PctOf(rows_of_student(rows, term_col, terms[i])))))]]

class_by_term(rows, c, terms, classes, pm) ==
  [k \in 1..Len(classes) |->
     [class |-> Str(classes[k]),
      terms |-> class_terms(rows_of_student(rows, c.class, classes[k]), c.term, terms, pm)]]

(* the students with a _total_delta, by descending delta *)
delta_ranked(with_delta) ==
  SortBy(with_delta, [k \in 1..Len(with_delta) |-> -with_delta[k]._total_delta])

mover(s) == [name |-> s.name, student_id |-> s.student_id, delta |-> s._total_delta]

reversed(s) == [i \in 1..Len(s) |-> s[Len(s) - i + 1]]

movers(with_delta) ==
  [top_improvers |-> [k \in 1..Len(head(delta_ranked(with_delta), 5)) |->
                        mover(head(delta_ranked(with_delta), 5)[k])],
   top_decliners |-> [k \in 1..Len(tail(delta_ranked(with_delta), 5)) |->
                        mover(reversed(tail(delta_ranked(with_delta), 5))[k])],
   student_delta_summary |->
     [improved |-> Cardinality({k \in 1..Len(with_delta) : with_delta[k]._total_delta > 100}),
      declined |-> Cardinality({k \in 1..Len(with_delta) : with_delta[k]._total_delta < -100}),
      stable |-> Cardinality({k \in 1..Len(with_delta) :
                                /\ with_delta[k]._total_delta <= 100
                                /\ with_delta[k]._total_delta >= -100})]]

(* 7. without an exam timeline, the first and last term of the school *)
early_performance(school) ==
  IF Len(school) >= 2
  THEN [baseline_label |-> school[1].term,
        baseline_mean |-> school[1].mean,
        latest_label |-> school[Len(school)].term,
        latest_mean |-> school[Len(school)].mean,
        delta |-> IF school[1].mean # None /\ school[Len(school)].mean # None
                  THEN school[Len(school)].mean - school[1].mean ELSE None,
        trend |-> IF school[1].mean = None \/ school[Len(school)].mean = None
                  THEN "insufficient_data"
                  ELSE IF school[Len(school)].mean - school[1].mean > 100 THEN "improving"
                  ELSE IF school[Len(school)].mean - school[1].mean < -100 THEN "declining"
                  ELSE "stable"]
  ELSE [baseline_label |-> NoneStr, baseline_mean |-> None, latest_label |-> NoneStr,
        latest_mean |-> None, delta |-> None, trend |-> "insufficient_data"]

(* the dict returned; the tables of the model carry no exam column, so the  *)
(* exam timeline is the empty list                                          *)
term_comparison(terms, school, subjects, students, classes) ==
  [exc |-> "none",
   terms |-> terms,
   school_system |-> "universal",
   school_by_term |-> school,
   subjects_by_term |-> subjects,
   subject_term_matrix |-> subject_term_matrix(subjects),
   students_by_term |-> students,
   class_by_term |-> classes,
   exam_timeline |-> <<>>,
   early_performance |-> early_performance(school)]
  @@ movers(SelectSeq(students, LAMBDA s : "_total_delta" \in DOMAIN s))

term_comparison_of(d, rows, c, terms, pm) ==
  IF terms # <<>> /\ ~HasCol(d, "percentage") THEN [exc |-> "KeyError"]
  ELSE term_comparison(
         terms,
         school_with_deltas(school_entries(rows, c, terms, pm)),
         IF c.subject = NoneStr THEN <<>>
         ELSE subjects_by_term(rows, c, terms, groupby(rows, c.subject), pm),
         IF c.student = NoneStr THEN <<>> ELSE students_by_term(rows, c, terms, pm),
         IF c.class = NoneStr THEN <<>>
         ELSE class_by_term(rows, c, terms, groupby(rows, c.class), pm))

(* compute_term_comparison(df, pass_mark): the dict returned, or the exception *)
compute_term_comparison_of(d, c, pm) ==
  IF c.term = NoneStr THEN [exc |-> "none", error |-> "No 'term' column found in data.",
                            terms |-> <<>>]
  ELSE term_comparison_of(d, canonical_rows(d.rows, c.term), c,
                          sorted_term_list_of(canonical_rows(d.rows, c.term), c.term), pm)

compute_term_comparison(d0, pm) ==
  compute_term_comparison_of(ensure_percentage(d0, STATS_SCORE_ALIASES, STATS_MAX_ALIASES),
                             term_columns(ensure_percentage(d0, STATS_SCORE_ALIASES,
                                                            STATS_MAX_ALIASES)),
                             pm)

(* ------------------------------------------------------------------ *)
(* routes/analyze.py                                                   *)
(* ------------------------------------------------------------------ *)
(* an uncaught exception of a handler is the framework's 500 response *)
Respond(out) ==
  IF out.exc = "none" THEN [status |-> 200, body |-> out]
  ELSE [status |-> 500, exc |-> out.exc]

(* _df_from_payload: an empty "data" list is a 400 *)
NoData == df.rows = <<>>
BadRequest == [status |-> 400]

(* the outcomes np.polyfit has on a NaN term mean *)
NanFits == {"raise", "nan"}

(* POST /risk *)
Risk ==
  /\ \E nanfit \in NanFits :
       resp' = IF NoData THEN BadRequest
               ELSE Respond(compute_risk_scores(df, pass_mark, nanfit))
  /\ req' = [route |-> "risk", student_id |-> NoneStr]
  /\ UNCHANGED <<df, pass_mark, env, upload_vars>>

(* POST /overview *)
Overview ==
  /\ resp' = IF NoData THEN BadRequest ELSE Respond(compute_overview(df, pass_mark))
  /\ req' = [route |-> "overview", student_id |-> NoneStr]
  /\ UNCHANGED <<df, pass_mark, env, upload_vars>>

(* scipy's p-values, rounded to two decimals: one for every pair of         *)
(* subjects that students of the model's tables share                       *)
PValues2 == {3, 40}
SubjectPairs == {<<"Eng", "Math">>}

(* POST /subjects *)
Subjects ==
  /\ \E pvalues \in [SubjectPairs -> PValues2] :
       resp' = IF NoData THEN BadRequest
               ELSE Respond(compute_subject_stats(df, pass_mark, pvalues))
  /\ req' = [route |-> "subjects", student_id |-> NoneStr]
  /\ UNCHANGED <<df, pass_mark, env, upload_vars>>

(* the student ids a client asks for *)
StudentIds == {"S1", "S3", "UNKNOWN", "nan"}

NotFound == [status |-> 404]

(* a profile of None is the route's 404 *)
RespondProfile(out) ==
  IF out.exc # "none" THEN [status |-> 500, exc |-> out.exc]
  ELSE IF out.none THEN NotFound
  ELSE [status |-> 200, body |-> out.profile]

(* POST /student/{student_id} *)
StudentProfile ==
  /\ \E student_id \in StudentIds :
       /\ resp' = IF NoData THEN BadRequest
                  ELSE RespondProfile(compute_student_profile(df, student_id, pass_mark))
       /\ req' = [route |-> "student", student_id |-> student_id]
  /\ UNCHANGED <<df, pass_mark, env, upload_vars>>

(* scipy's p-values of the gender, class and regional tests, in units of   *)
(* 10^-5: below 0.05, at 0.05, above it, and NaN                            *)
GenderLabels == {"Overall", "Math", "Eng"}

GenderPValues(overall, subject) ==
  [l \in GenderLabels |-> IF l = "Overall" THEN overall ELSE subject]

TestPValues ==
  {[gender |-> GenderPValues(100, 4996), class |-> 4996, region |-> 90000],
   [gender |-> GenderPValues(5000, NaN), class |-> NaN, region |-> 100],
   [gender |-> GenderPValues(100, 90000), class |-> 5000, region |-> 4996],
   [gender |-> GenderPValues(90000, 100), class |-> 100, region |-> NaN]}

(* POST /gaps *)
Gaps ==
  /\ \E p \in TestPValues :
       /\ resp' = IF NoData THEN BadRequest ELSE Respond(compute_gap_analysis(df, p))
       /\ req' = [route |-> "gaps", student_id |-> NoneStr, p |-> p]
  /\ UNCHANGED <<df, pass_mark, env, upload_vars>>

(* POST /insights *)
Insights ==
  /\ \E p \in TestPValues, nanfit \in NanFits, pvalues \in [SubjectPairs -> PValues2] :
       /\ resp' = IF NoData THEN BadRequest
                  ELSE Respond(generate_all_insights(df, pass_mark, nanfit, pvalues, p))
       /\ req' = [route |-> "insights", student_id |-> NoneStr, p |-> p]
  /\ UNCHANGED <<df, pass_mark, env, upload_vars>>

(* POST /term-comparison *)
TermComparison ==
  /\ resp' = IF NoData THEN BadRequest ELSE Respond(compute_term_comparison(df, pass_mark))
  /\ req' = [route |-> "term_comparison", student_id |-> NoneStr]
  /\ UNCHANGED <<df, pass_mark, env, upload_vars>>

(* sort_terms applied to the list of the request, then to its own result *)
SortTerms ==
  /\ req.route = "sort_terms"
  /\ IF resp.status = 0 THEN TRUE ELSE resp.calls < 2
  /\ resp' = IF resp.status = 0
             THEN [status |-> 200, calls |-> 1, input |-> req.term_list,
                   body |-> sort_terms(req.term_list)]
             ELSE [status |-> 200, calls |-> resp.calls + 1, input |-> resp.body,
                   body |-> sort_terms(resp.body)]
  /\ UNCHANGED <<df, pass_mark, env, req, upload_vars>>

(* POST /ai/parent-summary/{student_id} *)
RespondSummary(out) ==
  IF out.exc # "none" THEN [status |-> 500, exc |-> out.exc]
  ELSE IF "error" \in DOMAIN out.result THEN NotFound
  ELSE [status |-> 200, body |-> out.result]

AiParentSummary ==
  /\ \E student_id \in StudentIds, outcome \in AiOutcomes :
       /\ resp' = IF NoData THEN BadRequest
                  ELSE RespondSummary(generate_parent_summary(df, student_id, pass_mark,
                                                              env, outcome))
       /\ req' = [route |-> "ai_parent_summary", student_id |-> student_id,
                  outcome |-> outcome,
                  ai_called |-> ~NoData /\ generate_parent_summary(df, student_id, pass_mark,
                                                                   env, outcome).ai_called]
  /\ UNCHANGED <<df, pass_mark, env, upload_vars>>

(* ------------------------------------------------------------------ *)
(* routes/upload.py                                                    *)
(* ------------------------------------------------------------------ *)
(* Times are seconds.  A path is its directory, file name and extension.    *)
SESSION_TTL_SECONDS == 60 * 60

UPLOAD_DIR == "uploads"
SAMPLE_DATA_DIR == "sample_data"

Path(dir, name, ext) == [dir |-> dir, name |-> name, ext |-> ext]

(* the table of load_sample_data *)
sample_files ==
  [school |-> Path(SAMPLE_DATA_DIR, "sample_school", ".csv"),
   district |-> Path(SAMPLE_DATA_DIR, "sample_district", ".xlsx"),
   secondary |-> Path(SAMPLE_DATA_DIR, "sample_school_secondary", ".csv"),
   cbc |-> Path(SAMPLE_DATA_DIR, "sample_school_cbc", ".csv")]

SampleFiles == {sample_files[k] : k \in DOMAIN sample_files}

(* str(uuid.uuid4()): the n-th identifier drawn, never drawn before *)
MaxSessions == 2
UUIDS == <<"u1", "u2", "u3">>
uuid4(n) == UUIDS[n + 1]
SessionIds == {UUIDS[i] : i \in 1..MaxSessions}

(* UPLOAD_DIR / f"{session_id}{ext}" *)
save_path(session_id, ext) == Path(UPLOAD_DIR, session_id, ext)

(* the session store and the disk, with the sessions a request has popped *)
Store == [sessions |-> sessions, files |-> files, popped |-> {}]

Commit(st) ==
  /\ sessions' = st.sessions
  /\ files' = st.files
  /\ popped' = st.popped

(* _is_temp_upload_file with upload directories taken for temporary *)
is_temp_upload_file_any(fs, file_path) == file_path \in fs

(* _is_temp_upload_file: an existing file inside UPLOAD_DIR *)
is_temp_upload_file(fs, file_path) == file_path \in fs /\ file_path.dir = UPLOAD_DIR

(* _drop_session: pop the session; unlink its file if it is a temporary one *)
drop_session(st, session_id, delete_file) ==
  IF session_id \notin DOMAIN st.sessions THEN st
  ELSE [sessions |-> [k \in DOMAIN st.sessions \ {session_id} |-> st.sessions[k]],
        files |-> IF delete_file
                     /\ is_temp_upload_file(st.files, st.sessions[session_id].file_path)
                  THEN st.files \ {st.sessions[session_id].file_path}
                  ELSE st.files,
        popped |-> st.popped \cup {[session_id |-> session_id,
                                    file_path |-> st.sessions[session_id].file_path]}]

(* for sid in ...: _drop_session(sid, delete_file=True) *)
RECURSIVE drop_each(_, _)
drop_each(st, ids) ==
  IF ids = {} THEN st
  ELSE drop_each(drop_session(st, CHOOSE sid \in ids : TRUE, TRUE),
                 ids \ {CHOOSE sid \in ids : TRUE})

(* _purge_expired_sessions at time t *)
purge_expired_sessions(st, t) ==
  drop_each(st, {sid \in DOMAIN st.sessions :
                   t - st.sessions[sid].created_at > SESSION_TTL_SECONDS})

(* sessions[session_id] = {...} *)
stored(ss, session_id, file_path, t) ==
  [k \in DOMAIN ss \cup {session_id} |->
     IF k = session_id THEN [file_path |-> file_path, created_at |-> t] ELSE ss[k]]

Extensions == {".csv", ".exe"}
Accepted == {".csv", ".xlsx", ".xls", ".ods"}

UploadRequest(route, session_id) == [route |-> route, session_id |-> session_id]

(* POST /file up to the reading of the upload: the extension check, the     *)
(* purge and the creation of the file; reading the chunks suspends the      *)
(* handler                                                                  *)
UploadBegin ==
  \E ext \in Extensions :
     IF ext \notin Accepted
     THEN /\ resp' = [status |-> 400]
          /\ req' = UploadRequest("upload_file", NoneStr)
          /\ popped' = {}
          /\ UNCHANGED <<df, pass_mark, env, sessions, files, now, uuids, uploading>>
     ELSE /\ uuids < MaxSessions
          /\ uuids' = uuids + 1
          /\ sessions' = purge_expired_sessions(Store, now).sessions
          /\ files' = purge_expired_sessions(Store, now).files
                      \cup {save_path(uuid4(uuids), ext)}
          /\ popped' = purge_expired_sessions(Store, now).popped
          /\ uploading' = uploading \cup {[session_id |-> uuid4(uuids), ext |-> ext]}
          /\ UNCHANGED <<df, pass_mark, env, now, req, resp>>

(* POST /file from the last chunk on: the file is parsed and the session    *)
(* stored, or an exception unlinks the file                                 *)
UploadEnd ==
  \E u \in uploading, parsed \in BOOLEAN :
     /\ uploading' = uploading \ {u}
     /\ popped' = {}
     /\ req' = UploadRequest("upload_file", NoneStr)
     /\ IF parsed
        THEN /\ sessions' = stored(sessions, u.session_id,
                                   save_path(u.session_id, u.ext), now)
             /\ files' = files
             /\ resp' = [status |-> 200, session_id |-> u.session_id]
        ELSE /\ sessions' = sessions
             /\ files' = files \ {save_path(u.session_id, u.ext)}
             /\ resp' = [status |-> 400]
     /\ UNCHANGED <<df, pass_mark, env, now, uuids>>

MappingOutcomes == {"invalid_json", "reopen_fails", "fails", "cleaned"}

(* POST /confirm-mapping *)
ConfirmMapping ==
  \E session_id \in SessionIds, outcome \in MappingOutcomes :
     /\ req' = UploadRequest("confirm_mapping", session_id)
     /\ IF session_id \notin DOMAIN sessions
        THEN /\ resp' = [status |-> 404]
             /\ Commit(Store)
        ELSE IF outcome = "invalid_json"
        THEN /\ resp' = [status |-> 400]
             /\ Commit(Store)
        ELSE /\ resp' = IF outcome = "cleaned"
                        THEN [status |-> 200, session_id |-> session_id]
                        ELSE [status |-> 400]
             /\ Commit(drop_session(Store, session_id, TRUE))
     /\ UNCHANGED <<df, pass_mark, env, now, uuids, uploading>>

DatasetNames == {"school", "district", "other"}

(* GET /sample/{dataset_name} *)
LoadSample ==
  \E dataset_name \in DatasetNames, parsed \in BOOLEAN :
     /\ req' = UploadRequest("load_sample_data", NoneStr)
     /\ IF dataset_name \notin DOMAIN sample_files
        THEN /\ resp' = [status |-> 404]
             /\ Commit(Store)
             /\ uuids' = uuids
        ELSE IF sample_files[dataset_name] \notin files
        THEN /\ resp' = [status |-> 404]
             /\ Commit(Store)
             /\ uuids' = uuids
        ELSE /\ uuids < MaxSessions
             /\ uuids' = uuids + 1
             /\ files' = purge_expired_sessions(Store, now).files
             /\ popped' = purge_expired_sessions(Store, now).popped
             /\ IF parsed
                THEN /\ sessions' = stored(purge_expired_sessions(Store, now).sessions,
                                           uuid4(uuids), sample_files[dataset_name], now)
                     /\ resp' = [status |-> 200, session_id |-> uuid4(uuids)]
                ELSE /\ sessions' = purge_expired_sessions(Store, now).sessions
                     /\ resp' = [status |-> 400]
     /\ UNCHANGED <<df, pass_mark, env, now, uploading>>

(* GET /sessions *)
ListSessions ==
  /\ req' = UploadRequest("list_sessions", NoneStr)
  /\ Commit(purge_expired_sessions(Store, now))
  /\ resp' = [status |-> 200, body |-> DOMAIN purge_expired_sessions(Store, now).sessions]
  /\ UNCHANGED <<df, pass_mark, env, now, uuids, uploading>>

(* GET /session/{session_id} *)
GetSession ==
  \E session_id \in SessionIds :
     /\ req' = UploadRequest("get_session", session_id)
     /\ Commit(purge_expired_sessions(Store, now))
     /\ resp' = IF session_id \in DOMAIN purge_expired_sessions(Store, now).sessions
                THEN [status |-> 200, session_id |-> session_id]
                ELSE [status |-> 404]
     /\ UNCHANGED <<df, pass_mark, env, now, uuids, uploading>>

(* POST /end-session: one session, or all of them without a session_id *)
EndSession ==
  \E session_id \in SessionIds \cup {NoneStr} :
     /\ req' = UploadRequest("end_session", session_id)
     /\ Commit(IF session_id # NoneStr THEN drop_session(Store, session_id, TRUE)
               ELSE drop_each(Store, DOMAIN sessions))
     /\ resp' = [status |-> 200]
     /\ UNCHANGED <<df, pass_mark, env, now, uuids, uploading>>

(* time() advances between requests *)
TickSeconds == SESSION_TTL_SECONDS \div 2
MaxTicks == 3

Tick ==
  /\ now + TickSeconds <= MaxTicks * TickSeconds
  /\ now' = now + TickSeconds
  /\ UNCHANGED <<df, pass_mark, env, req, resp, sessions, files, uuids, uploading, popped>>

(* the server before any upload: no session, the bundled datasets on disk *)
NoUploads ==
  /\ sessions = <<>>
  /\ files = SampleFiles
  /\ now = 0
  /\ uuids = 0
  /\ uploading = {}
  /\ popped = {}

(* ------------------------------------------------------------------ *)
(* Request payloads                                                    *)
(* ------------------------------------------------------------------ *)
Row(sid, cls, g, subj, term, pct) ==
  [student_id |-> sid, class |-> cls, gender |-> g, subject |-> subj,
   term |-> term, region |-> NaNStr, percentage |-> pct]

ALL_COLUMNS == <<"student_id", "class", "gender", "subject", "term", "percentage">>

(* n rows of one classmate *)
Cohort(sid, cls, n, pct) == [i \in 1..n |-> Row(sid, cls, "M", "Math", "Term 1", pct)]

MaxCohort == 12

(* a focus student S1 with a Term 1 score and up to three Term 2 scores,   *)
(* a cohort of classmates' scores, and one student of another class        *)
RiskRows(a, bm, be, bs, n, c, o) ==
  <<Row("S1", "A", "F", "Math", "Term 1", a)>>
  \o (IF bm = None THEN <<>> ELSE <<Row("S1", "A", "F", "Math", "Term 2", bm)>>)
  \o (IF be = None THEN <<>> ELSE <<Row("S1", "A", "F", "Eng", "Term 2", be)>>)
  \o (IF bs = None THEN <<>> ELSE <<Row("S1", "A", "F", "Sci", "Term 2", bs)>>)
  \o Cohort("S2", "A", n, c)
  \o (IF o = None THEN <<>> ELSE <<Row("S3", "B", "M", "Math", "Term 1", o)>>)

RiskColumnSets ==
  {ALL_COLUMNS,
   <<"student_id", "subject", "term", "percentage">>,
   <<"student_id", "class", "percentage">>}

RiskTables ==
  {[columns |-> cols, rows |-> RiskRows(a, bm, be, bs, n, c, o)] :
     cols \in RiskColumnSets,
     a \in {NaN, 30, 60}, bm \in {None, 0, 50}, be \in {None, 0, 90}, bs \in {None, 0},
     n \in {0, 2, MaxCohort}, c \in {10, 100}, o \in {None, 45}}

PassMarks == {40, 50, 100}

NoEnv == [ai_enabled |-> "false", provider |-> "openai", api_key |-> ""]
NoRequest == [route |-> "none", student_id |-> NoneStr]
NoResponse == [status |-> 0]

InitRisk ==
  /\ df \in RiskTables
  /\ pass_mark \in PassMarks
  /\ env = NoEnv
  /\ req = NoRequest
  /\ resp = NoResponse
  /\ NoUploads

NextRisk == Risk

SpecRisk == InitRisk /\ [][NextRisk]_vars

(* The two-student scenario: a high scorer with 80 and 90 and a low scorer  *)
(* with 20 and 30 in one subject and one term, in any row order, with or    *)
(* without a class column, pass mark 50                                     *)
HighScorer == "S1"
LowScorer == "S2"

ScenarioRows(subj, term, ch, cl) ==
  <<Row(HighScorer, ch, "F", subj, term, 80), Row(HighScorer, ch, "F", subj, term, 90),
    Row(LowScorer, cl, "M", subj, term, 20), Row(LowScorer, cl, "M", subj, term, 30)>>

Permutations4 == {p \in [1..4 -> 1..4] : \A i, j \in 1..4 : p[i] = p[j] => i = j}

ScenarioColumnSets ==
  {ALL_COLUMNS, <<"student_id", "subject", "term", "percentage">>}

ScenarioTables ==
  {[columns |-> cols,
    rows |-> [i \in 1..4 |-> ScenarioRows(subj, term, ch, cl)[p[i]]]] :
     cols \in ScenarioColumnSets, subj \in {"Math", "Eng"}, term \in {"Term 1", "T1"},
     ch \in {"A", "B"}, cl \in {"A", "B"}, p \in Permutations4}

InitScenario ==
  /\ df \in ScenarioTables
  /\ pass_mark = 50
  /\ env = NoEnv
  /\ req = NoRequest
  /\ resp = NoResponse
  /\ NoUploads

NextScenario == Overview \/ Risk

SpecScenario == InitScenario /\ [][NextScenario]_vars

(* Tables for the statistics routes: two students with a Mathematics and   *)
(* an English score each, optionally a third student, optionally a row      *)
(* without a student id; any of the scores may be missing                   *)
ThirdStudent(third) ==
  IF third = "both"
  THEN <<Row("S3", "B", "M", "Math", "Term 2", 50), Row("S3", "B", "M", "Eng", "Term 2", 70)>>
  ELSE IF third = "math" THEN <<Row("S3", "B", "M", "Math", "Term 2", 50)>>
  ELSE <<>>

StatsRows(a, b, c, third, anon) ==
  <<Row("S1", "A", "F", "Math", "Term 1", a), Row("S1", "A", "F", "Eng", "Term 1", b),
    Row("S2", "A", "M", "Math", "Term 1", 30), Row("S2", "A", "M", "Eng", "Term 1", c)>>
  \o ThirdStudent(third)
  \o (IF anon THEN <<Row(NaNStr, "B", "F", "Sci", "Term 2", 60)>> ELSE <<>>)

StatsColumnSets ==
  {ALL_COLUMNS,
   <<"student_id", "subject", "percentage">>,
   <<"subject", "term", "percentage">>,
   <<"student_id", "class", "term", "percentage">>,
   <<"student_id", "subject", "term">>}

StatsTables ==
  {[columns |-> cols, rows |-> StatsRows(a, b, c, third, anon)] :
     cols \in StatsColumnSets, a \in {NaN, 40, 50}, b \in {BadText, 20, 100},
     c \in {NaN, 40}, third \in {"none", "both", "math"}, anon \in BOOLEAN}
  \cup {[columns |-> ALL_COLUMNS, rows |-> <<>>]}

StatsPassMarks == {40, 50}

InitStats ==
  /\ df \in StatsTables
  /\ pass_mark \in StatsPassMarks
  /\ env = NoEnv
  /\ req = NoRequest
  /\ resp = NoResponse
  /\ NoUploads

NextStats == Overview \/ Subjects \/ StudentProfile

SpecStats == InitStats /\ [][NextStats]_vars

(* two girls of class A in the East and two boys of class B in the West,    *)
(* with six scores over two terms                                           *)
GapRow(sid, cls, g, region, subj, term, pct) ==
  [student_id |-> sid, class |-> cls, gender |-> g, subject |-> subj,
   term |-> term, region |-> region, percentage |-> pct]

GapScores ==
  {<<80, 90, 85, 20, 30, 25>>,
   <<30, 50, 40, 40, 42, 41>>,
   <<NaN, NaN, NaN, NaN, NaN, NaN>>,
   <<80, NaN, NaN, 20, 30, NaN>>}

MissingLabels == {"none", "gender", "class", "region", "term", "one_term", "boys"}

GapRows(s, missing) ==
  LET g(v) == IF missing = "gender" THEN NaNStr ELSE IF missing = "boys" THEN "F" ELSE v
      c(v) == IF missing = "class" THEN NaNStr ELSE v
      r(v) == IF missing = "region" THEN NaNStr ELSE v
      t(v) == IF missing = "term" THEN NaNStr ELSE v
  IN  <<GapRow("S1", c("A"), g("F"), r("East"), "Math", t("T1"), s[1]),
        GapRow("S1", c("A"), g("F"), r("East"), "Math",
               IF missing = "one_term" THEN NaNStr ELSE t("Term 2"), s[2]),
        GapRow("S2", c("A"), g("F"), r("East"), "Math", t("T1"), s[3]),
        GapRow("S3", c("B"), g("M"), r("West"), "Math", t("T1"), s[4]),
        GapRow("S4", c("B"), g("M"), r("West"), "Math", t("T1"), s[5]),
        GapRow("S4", c("B"), g("M"), r("West"), "Eng", t("Term 2"), s[6])>>

GapColumnSets ==
  {<<"student_id", "class", "gender", "region", "subject", "term", "percentage">>,
   <<"student_id", "gender", "subject", "term", "percentage">>}

GapTables ==
  {[columns |-> cols, rows |-> GapRows(s, missing)] :
     cols \in GapColumnSets, s \in GapScores, missing \in MissingLabels}
  \cup {[columns |-> <<"student_id", "percentage">>, rows |-> <<>>]}

InitGaps ==
  /\ df \in GapTables
  /\ pass_mark = 50
  /\ env = NoEnv
  /\ req = NoRequest
  /\ resp = NoResponse
  /\ NoUploads

NextGaps == Gaps \/ Insights

SpecGaps == InitGaps /\ [][NextGaps]_vars

(* the settings AI_ENABLED, AI_PROVIDER and OPENAI_API_KEY *)
AiEnv(ai_enabled, provider, api_key) ==
  [ai_enabled |-> ai_enabled, provider |-> provider, api_key |-> api_key]

AiEnvs ==
  {AiEnv("false", "openai", "sk-test"), AiEnv("TRUE", "other", "sk-test"),
   AiEnv("1", "OpenAI", "  "), AiEnv("true", "openai", ""),
   AiEnv("true", "openai", "sk-test"), AiEnv("TRUE", "OpenAI", "sk-test")}

(* two students of one class over two terms, S1 with scores a and b *)
AiRows(a, b) ==
  <<Row("S1", "A", "F", "Math", "Term 1", a), Row("S1", "A", "F", "Math", "Term 2", b),
    Row("S2", "A", "M", "Math", "Term 1", 63), Row("S2", "A", "M", "Math", "Term 2", 61)>>

AiColumnSets ==
  {ALL_COLUMNS, <<"student_id", "percentage">>}

AiTables ==
  {[columns |-> cols, rows |-> AiRows(a, b)] :
     cols \in AiColumnSets, a \in {48, NaN}, b \in {80, BadText}}

InitAI ==
  /\ df \in AiTables
  /\ pass_mark = 50
  /\ env \in AiEnvs
  /\ req = NoRequest
  /\ resp = NoResponse
  /\ NoUploads

NextAI == AiParentSummary

SpecAI == InitAI /\ [][NextAI]_vars

(* two students over up to three terms whose labels are written in several *)
(* ways; the second student has no row in the middle term, English is      *)
(* examined in the last term only, and any score of the first may be missing *)
TermRows(l1, l2, l3, a, b, c) ==
  <<Row("S1", "A", "F", "Math", l2, b),
    Row("S1", "A", "F", "Math", l1, a),
    Row("S2", "B", "M", "Math", l1, 40),
    Row("S1", "A", "F", "Eng", l3, c),
    Row("S2", "B", "M", "Math", l3, 60)>>

TermColumnSets ==
  {ALL_COLUMNS,
   <<"subject", "term", "percentage">>,
   <<"student_id", "class", "percentage">>}

TermTables ==
  {[columns |-> cols, rows |-> TermRows(l1, l2, l3, a, b, c)] :
     cols \in TermColumnSets,
     l1 \in {"T1", "Term 1"}, l2 \in {"Term 2", "2024 T2", "Final", "T1"},
     l3 \in {"3", "Term 3", NaNStr, "nan"},
     a \in {NaN, 40, 70}, b \in {NaN, 50}, c \in {NaN, 80}}

InitTerms ==
  /\ df \in TermTables
  /\ pass_mark = 50
  /\ env = NoEnv
  /\ req = NoRequest
  /\ resp = NoResponse
  /\ NoUploads

NextTerms == TermComparison

SpecTerms == InitTerms /\ [][NextTerms]_vars

(* the tables of the seven engines together: the first student may have no  *)
(* valid score at all, a term may be unlabelled or without a number          *)
FiniteTables ==
  {[columns |-> ALL_COLUMNS, rows |-> TermRows("T1", l2, l3, a, b, c)] :
     l2 \in {"Term 2"}, l3 \in {"3", NaNStr},
     a \in {NaN, 70}, b \in {NaN, 50}, c \in {NaN, 80}}

InitFinite ==
  /\ df \in FiniteTables
  /\ pass_mark = 50
  /\ env = NoEnv
  /\ req = NoRequest
  /\ resp = NoResponse
  /\ NoUploads

NextFinite ==
  Overview \/ Subjects \/ StudentProfile \/ TermComparison \/ Risk \/ Gaps \/ Insights

SpecFinite == InitFinite /\ [][NextFinite]_vars

(* the lists of up to MaxTerms labels: the three of TERM_META, a second     *)
(* spelling of the first term, a label without a number and a label whose   *)
(* number is a year                                                         *)
MaxTerms == 3

TermLabels == {"Term 1", "Term 2", "Term 3", "T1", "Final", "Term 2024"}

TermLists == UNION {[1..n -> TermLabels] : n \in 0..MaxTerms}

InitSort ==
  /\ df = [columns |-> <<>>, rows |-> <<>>]
  /\ pass_mark = 50
  /\ env = NoEnv
  /\ req \in {[route |-> "sort_terms", student_id |-> NoneStr, term_list |-> x] :
                x \in TermLists}
  /\ resp = NoResponse
  /\ NoUploads

NextSort == SortTerms

SpecSort == InitSort /\ [][NextSort]_vars

(* four scores of two students in two classes, out of 50, under the column *)
(* names a school may use for the class, the score and the maximum          *)
AliasRow(sid, cls, subj, score, class_name, score_name, max_name) ==
  [student_id |-> sid, subject |-> subj, term |-> "T1"]
  @@ (class_name :> cls) @@ (score_name :> score)
  @@ (IF max_name = NoneStr THEN <<>> ELSE (max_name :> 50))

AliasRows(a, class_name, score_name, max_name) ==
  <<AliasRow("S1", "A", "Math", a, class_name, score_name, max_name),
    AliasRow("S1", "A", "Eng", 40, class_name, score_name, max_name),
    AliasRow("S2", "B", "Math", 20, class_name, score_name, max_name),
    AliasRow("S2", "B", "Eng", 10, class_name, score_name, max_name)>>

AliasColumns(class_name, score_name, max_name) ==
  <<"student_id", class_name, "subject", "term", score_name>>
  \o (IF max_name = NoneStr THEN <<>> ELSE <<max_name>>)

AliasTables ==
  {[columns |-> AliasColumns(class_name, score_name, max_name),
    rows |-> AliasRows(a, class_name, score_name, max_name)] :
     a \in {30, 50}, class_name \in {"class", "form", "stream"},
     score_name \in {"percentage", "score", "points"},
     max_name \in {NoneStr, "out_of", "maximum"}}

InitColumns ==
  /\ df \in AliasTables
  /\ pass_mark = 50
  /\ env = NoEnv
  /\ req = NoRequest
  /\ resp = NoResponse
  /\ NoUploads

NextColumns == Overview \/ Risk \/ Gaps \/ StudentProfile

SpecColumns == InitColumns /\ [][NextColumns]_vars

(* one score each of three students, two of class A and one of class B, in *)
(* any order of the rows; the scores may be equal and the third missing     *)
RankOrders ==
  {<<1, 2, 3>>, <<1, 3, 2>>, <<2, 1, 3>>, <<2, 3, 1>>, <<3, 1, 2>>, <<3, 2, 1>>}

RankRows(order, a, b, c) ==
  [i \in 1..3 |->
     <<Row("S1", "A", "F", "Math", "Term 1", a),
       Row("S2", "A", "M", "Math", "Term 1", b),
       Row("S3", "B", "M", "Math", "Term 1", c)>>[order[i]]]

RankTables ==
  {[columns |-> ALL_COLUMNS, rows |-> RankRows(order, a, b, c)] :
     order \in RankOrders, a \in {50, 70}, b \in {50, 70}, c \in {NaN, 50, 70}}

InitRank ==
  /\ df \in RankTables
  /\ pass_mark = 50
  /\ env = NoEnv
  /\ req = NoRequest
  /\ resp = NoResponse
  /\ NoUploads

NextRank == StudentProfile

SpecRank == InitRank /\ [][NextRank]_vars

(* The sudden-drop tables: a focus student S1 with two Math scores and a    *)
(* third score in Math or English, under any choice of term labels (two     *)
(* scores in one term, a term without Math, labels whose text order is not  *)
(* their calendar order), and a classmate who raises the school average     *)
DropRows(l1, l2, l3, subj, a, b, c) ==
  <<Row("S1", "A", "F", "Math", l1, a),
    Row("S1", "A", "F", "Math", l2, b),
    Row("S1", "A", "F", subj, l3, c),
    Row("S2", "A", "M", "Math", "Term 1", 100)>>

DropLabels == {"Term 1", "Term 2", "Final"}

DropTables ==
  {[columns |-> ALL_COLUMNS, rows |-> DropRows(l1, l2, l3, subj, a, b, c)] :
     l1 \in DropLabels, l2 \in DropLabels, l3 \in DropLabels, subj \in {"Math", "Eng"},
     a \in {50, 80}, b \in {50, 80}, c \in {50, 80}}

InitDrop ==
  /\ df \in DropTables
  /\ pass_mark = 90
  /\ env = NoEnv
  /\ req = NoRequest
  /\ resp = NoResponse
  /\ NoUploads

NextDrop == Risk

SpecDrop == InitDrop /\ [][NextDrop]_vars

(* The class tables: classes A and B with two scores each and a class C     *)
(* with no row, one row or two rows, its scores higher or lower than the    *)
(* others' or missing                                                       *)
ClassRows(a, b, nc, c) ==
  <<Row("S1", "A", "F", "Math", "Term 1", a[1]),
    Row("S2", "A", "F", "Math", "Term 1", a[2]),
    Row("S3", "B", "F", "Math", "Term 1", b[1]),
    Row("S4", "B", "F", "Math", "Term 1", b[2])>>
  \o [i \in 1..nc |-> Row("S5", "C", "F", "Math", "Term 1", c)]

MaxClassRows == 2

ClassTables ==
  {[columns |-> ALL_COLUMNS, rows |-> ClassRows(a, b, nc, c)] :
     a \in {<<40, 60>>, <<70, 70>>}, b \in {<<50, 50>>, <<30, 90>>},
     nc \in 0..MaxClassRows, c \in {NaN, 20, 100}}

InitClasses ==
  /\ df \in ClassTables
  /\ pass_mark = 50
  /\ env = NoEnv
  /\ req = NoRequest
  /\ resp = NoResponse
  /\ NoUploads

NextClasses == Gaps

SpecClasses == InitClasses /\ [][NextClasses]_vars

(* The upload service: uploads, sample loads, confirmations, session ends,  *)
(* listings and the passing of time, in any order                           *)
InitUpload ==
  /\ df = [columns |-> <<>>, rows |-> <<>>]
  /\ pass_mark = 50
  /\ env = NoEnv
  /\ req = NoRequest
  /\ resp = NoResponse
  /\ sessions = <<>>
  /\ files \in {SampleFiles, SampleFiles \ {sample_files.district}}
  /\ now = 0
  /\ uuids = 0
  /\ uploading = {}
  /\ popped = {}

NextUpload ==
  \/ UploadBegin \/ UploadEnd \/ ConfirmMapping \/ LoadSample
  \/ ListSessions \/ GetSession \/ EndSession \/ Tick

SpecUpload == InitUpload /\ [][NextUpload]_vars

(* The pass-mark tables: a focus student S1 with three scores that are      *)
(* missing, zero, or on either side of the pass mark, for a pass mark of 0  *)
(* or 50                                                                    *)
MarkRows(a, b, c) ==
  <<Row("S1", "A", "F", "Math", "Term 1", a),
    Row("S1", "A", "F", "Eng", "Term 1", b),
    Row("S1", "A", "F", "Sci", "Term 1", c),
    Row("S2", "A", "M", "Math", "Term 1", 60)>>

MarkTables ==
  {[columns |-> ALL_COLUMNS, rows |-> MarkRows(a, b, c)] :
     a \in {NaN, 0, 50, 100}, b \in {NaN, 0, 49, 50}, c \in {NaN, 0, 70}}

InitMarks ==
  /\ df \in MarkTables
  /\ pass_mark \in {0, 50}
  /\ env = NoEnv
  /\ req = NoRequest
  /\ resp = NoResponse
  /\ NoUploads

NextMarks == StudentProfile

SpecMarks == InitMarks /\ [][NextMarks]_vars

(* The trend tables: a focus student S1 with a score in each of two terms,  *)
(* under any choice of term labels, and a classmate who raises the school   *)
(* average; both engines are asked about the same table                     *)
TrendRows(l1, l2, a, b) ==
  <<Row("S1", "A", "F", "Math", l1, a),
    Row("S1", "A", "F", "Math", l2, b),
    Row("S2", "A", "M", "Math", "Term 1", 100)>>

TrendTables ==
  {[columns |-> ALL_COLUMNS, rows |-> TrendRows(l1, l2, a, b)] :
     l1 \in DropLabels, l2 \in DropLabels, a \in {30, 50, 80}, b \in {30, 50, 80}}

InitTrend ==
  /\ df \in TrendTables
  /\ pass_mark = 90
  /\ env = NoEnv
  /\ req = NoRequest
  /\ resp = NoResponse
  /\ NoUploads

NextTrend == Risk \/ Insights

SpecTrend == InitTrend /\ [][NextTrend]_vars

(* The named tables: two boys at the top of the school and two girls, each  *)
(* with one score in the same subject; the boys' display names and the      *)
(* subject's name are chosen freely, 'Overall' being a subject name too     *)
TopNames == {"Ann B", "ann_b", "Cy"}

NamedRow(sid, student_name, g, subj, pct) ==
  [student_id |-> sid, name |-> student_name, gender |-> g, subject |-> subj,
   percentage |-> pct]

NamedRows(n1, n2, subj, girls) ==
  <<NamedRow("S1", n1, "M", subj, 95),
    NamedRow("S2", n2, "M", subj, 90),
    NamedRow("S3", "Cy", "F", subj, girls),
    NamedRow("S4", "Cy", "F", subj, girls - 10)>>

NamedTables ==
  {[columns |-> cols, rows |-> NamedRows(n1, n2, subj, girls)] :
     cols \in {<<"student_id", "name", "gender", "subject", "percentage">>,
               <<"name", "gender", "subject", "percentage">>},
     n1 \in TopNames, n2 \in TopNames, subj \in {"Math", "Overall"}, girls \in {70, 40}}

InitNamed ==
  /\ df \in NamedTables
  /\ pass_mark = 50
  /\ env = NoEnv
  /\ req = NoRequest
  /\ resp = NoResponse
  /\ NoUploads

NextNamed == Overview \/ Insights

SpecNamed == InitNamed /\ [][NextNamed]_vars

(* ------------------------------------------------------------------ *)
(* Properties of POST /risk                                            *)
(* ------------------------------------------------------------------ *)
RiskAnswered == req.route = "risk" /\ resp.status = 200

(* every assessment the loop of compute_risk_scores appended for df *)
ScoredStudents ==
  LET d == ensure_percentage(df, RISK_SCORE_ALIASES, RISK_MAX_ALIASES)
  IN  UNION {{s.rec : s \in {x \in Range(score_students(d, pass_mark, nanfit)) :
                                ~x.skip /\ x.exc = "none"}} : nanfit \in NanFits}

(* C1: every student returned by compute_risk_scores has an overall_mean    *)
(* strictly below summary.school_average and strictly below pass_mark.      *)
C1_RiskFilter ==
  RiskAnswered =>
    \A i \in 1..Len(resp.body.students) :
      /\ resp.body.summary.school_average # None
      /\ resp.body.students[i].overall_mean # None
      /\ resp.body.students[i].overall_mean < resp.body.summary.school_average
      /\ resp.body.students[i].overall_mean < pass_mark * 100

(* a response that returns one student and leaves out another who is below  *)
(* the pass mark but not below the school average                           *)
C1_Witness ==
  /\ RiskAnswered
  /\ resp.body.students # <<>>
  /\ \E s \in ScoredStudents :
       /\ s.overall_mean < pass_mark * 100
       /\ s.overall_mean >= resp.body.summary.school_average
       /\ \A i \in 1..Len(resp.body.students) :
            resp.body.students[i].student_id # s.student_id

(* C3: every student scored has 0 <= risk_score <= 100, whatever factors    *)
(* are triggered (risk_score is in tenths of a point).                      *)
C3_RiskScoreRange ==
  req.route = "risk" =>
    \A s \in ScoredStudents : 0 <= s.risk_score /\ s.risk_score <= 1000

(* a scored student with all five factors triggered *)
C3_Witness ==
  /\ RiskAnswered
  /\ \E s \in ScoredStudents :
       /\ Len(s.factors) = 5
       /\ \A i \in 1..5 : s.factors[i].triggered

(* C4: risk_level is High exactly when risk_score >= 70, Medium exactly     *)
(* when 40 <= risk_score < 70, Low exactly when risk_score < 40.            *)
C4_RiskLevel ==
  RiskAnswered =>
    \A i \in 1..Len(resp.body.students) :
      LET s == resp.body.students[i]
      IN  /\ s.risk_level \in {"High", "Medium", "Low"}
          /\ s.risk_level = "High" <=> s.risk_score >= 700
          /\ s.risk_level = "Medium" <=> (400 <= s.risk_score /\ s.risk_score < 700)
          /\ s.risk_level = "Low" <=> s.risk_score < 400

(* a returned student exactly on the Medium threshold, 40.0 *)
C4_Witness ==
  /\ RiskAnswered
  /\ \E i \in 1..Len(resp.body.students) :
       /\ resp.body.students[i].risk_score = 400
       /\ resp.body.students[i].risk_level = "Medium"

(* ------------------------------------------------------------------ *)
(* Properties of the two-student scenario                              *)
(* ------------------------------------------------------------------ *)
OverviewAnswered == req.route = "overview" /\ resp.status = 200

ScenarioOverview ==
  req.route = "overview" =>
    /\ OverviewAnswered
    /\ resp.body.overview.overall_mean = 5500
    /\ resp.body.overview.pass_rate = 5000

LowScorerReturnedAs(level) ==
  /\ RiskAnswered
  /\ \E i \in 1..Len(resp.body.students) :
       /\ resp.body.students[i].student_id = LowScorer
       /\ resp.body.students[i].risk_level = level

(* C2, as stated: in the scenario the low scorer is returned by             *)
(* compute_risk_scores with risk_level "High", and the overview has         *)
(* overall_mean 55.0 and pass_rate 50.0.                                    *)
C2_AsStated ==
  /\ ScenarioOverview
  /\ req.route = "risk" => LowScorerReturnedAs("High")

(* C2, amended: in the scenario the low scorer is returned by               *)
(* compute_risk_scores with risk_score 27.5 and risk_level "Low", and the   *)
(* overview has overall_mean 55.0 and pass_rate 50.0.                       *)
C2_Scenario ==
  /\ ScenarioOverview
  /\ req.route = "risk" =>
       /\ LowScorerReturnedAs("Low")
       /\ \A i \in 1..Len(resp.body.students) :
            /\ resp.body.students[i].student_id = LowScorer
            /\ resp.body.students[i].risk_score = 275

(* the risk response of the scenario: the low scorer alone, at 27.5 *)
C2_Witness ==
  /\ df \in ScenarioTables
  /\ pass_mark = 50
  /\ RiskAnswered
  /\ Len(resp.body.students) = 1
  /\ resp.body.students[1].student_id = LowScorer
  /\ resp.body.students[1].overall_mean = 2500
  /\ resp.body.summary.school_average = 5500

(* ------------------------------------------------------------------ *)
(* Properties of the statistics routes                                 *)
(* ------------------------------------------------------------------ *)
SubjectsAnswered == req.route = "subjects" /\ resp.status = 200
ProfileAnswered == req.route = "student" /\ resp.status = 200

(* a percentage cell of the payload that is a number *)
NonNull(v) == v \notin {NaN, BadText}

(* the counts are those of the numeric percentages of the rows in scope *)
Counted(scope, counts) ==
  /\ counts.pass_count =
       Cardinality({i \in scope : NonNull(df.rows[i].percentage)
                                   /\ df.rows[i].percentage >= pass_mark})
  /\ counts.fail_count =
       Cardinality({i \in scope : NonNull(df.rows[i].percentage)
                                   /\ df.rows[i].percentage < pass_mark})
  /\ counts.pass_count + counts.fail_count =
       Cardinality({i \in scope : NonNull(df.rows[i].percentage)})

(* C5: in compute_overview, in every subject entry of compute_subject_stats *)
(* and in compute_student_profile, every non-null percentage in scope is    *)
(* counted in exactly one of pass_count (>= pass_mark) and fail_count       *)
(* (< pass_mark), and null percentages in neither.                          *)
C5_PassFailPartition ==
  /\ OverviewAnswered => Counted(DOMAIN df.rows, resp.body.overview)
  /\ SubjectsAnswered =>
       \A k \in 1..Len(resp.body.subjects) :
         Counted({i \in DOMAIN df.rows : df.rows[i].subject = resp.body.subjects[k].subject},
                 resp.body.subjects[k])
  /\ ProfileAnswered =>
       Counted({i \in DOMAIN df.rows : Str(df.rows[i].student_id) = req.student_id},
               resp.body)

(* an overview of a table with a missing percentage, a percentage equal to  *)
(* the pass mark and one below it                                           *)
C5_Witness ==
  /\ OverviewAnswered
  /\ \E i, j, k \in DOMAIN df.rows :
       /\ ~NonNull(df.rows[i].percentage)
       /\ df.rows[j].percentage = pass_mark
       /\ NonNull(df.rows[k].percentage) /\ df.rows[k].percentage < pass_mark
  /\ resp.body.overview.pass_count > 0
  /\ resp.body.overview.fail_count > 0

(* the students of the payload with a numeric percentage in both subjects *)
SharedBy(a, b) ==
  {s \in {df.rows[i].student_id : i \in DOMAIN df.rows} \ {NaNStr} :
     /\ \E i \in DOMAIN df.rows :
          /\ df.rows[i].student_id = s /\ df.rows[i].subject = a
          /\ NonNull(df.rows[i].percentage)
     /\ \E i \in DOMAIN df.rows :
          /\ df.rows[i].student_id = s /\ df.rows[i].subject = b
          /\ NonNull(df.rows[i].percentage)}

HasMatrix == SubjectsAnswered /\ "matrix" \in DOMAIN resp.body.correlation_matrix

(* C7, as stated: a pair of subjects that fewer than 3 students have both   *)
(* recorded is neither an entry of correlation_matrix.pairs nor has a       *)
(* coefficient in correlation_matrix.matrix.                                *)
C7_AsStated ==
  HasMatrix =>
    \A ab \in DOMAIN resp.body.correlation_matrix.matrix :
      (ab[1] # ab[2] /\ Cardinality(SharedBy(ab[1], ab[2])) < 3) =>
        /\ resp.body.correlation_matrix.matrix[ab] = None
        /\ \A k \in 1..Len(resp.body.correlation_matrix.pairs) :
             ~(/\ resp.body.correlation_matrix.pairs[k].subject_a = ab[1]
               /\ resp.body.correlation_matrix.pairs[k].subject_b = ab[2])

(* the part of C7 the code keeps: the pairs list holds no such pair *)
C7_PairsGate ==
  HasMatrix =>
    \A k \in 1..Len(resp.body.correlation_matrix.pairs) :
      Cardinality(SharedBy(resp.body.correlation_matrix.pairs[k].subject_a,
                           resp.body.correlation_matrix.pairs[k].subject_b)) >= 3

(* the student column of the payload, when it is one of the table's columns *)
KnownStudent ==
  /\ HasCol(df, "student_id")
  /\ \E i \in DOMAIN df.rows : Str(df.rows[i].student_id) = req.student_id

(* C9: compute_student_profile returns None, without raising, when no row's *)
(* student identifier equals the requested student_id or no student column  *)
(* exists, and the route answers 404 instead of a profile.                  *)
C9_UnknownStudent404 ==
  (req.route = "student" /\ df.rows # <<>> /\ ~KnownStudent) => resp = NotFound

(* a request for a student that no row of a table with students names *)
C9_Witness ==
  /\ req.route = "student"
  /\ req.student_id = "UNKNOWN"
  /\ HasCol(df, "student_id")
  /\ df.rows # <<>>
  /\ resp = NotFound

(* ------------------------------------------------------------------ *)
(* Properties of POST /gaps and POST /insights                         *)
(* ------------------------------------------------------------------ *)
InsightsAnswered == req.route = "insights" /\ resp.status = 200

HasInsight(id) == \E i \in 1..Len(resp.body.insights) : resp.body.insights[i].id = id

InsightsOfKind(kind) ==
  {i \in 1..Len(resp.body.insights) : resp.body.insights[i].id = kind}

(* the gender gap insights: one id for each label of the gender tests *)
GenderInsights ==
  {i \in 1..Len(resp.body.insights) :
     \E label \in DOMAIN req.p.gender :
        resp.body.insights[i].id = "gap_gender_" \o id_text(label)}

(* C6: generate_all_insights emits a gender, class or regional gap insight  *)
(* only for a gap whose test p-value is below 0.05 and, for a gender gap,   *)
(* whose |Cohen's d| is also above 0.2 (d squared above 0.04)               *)
C6_GapInsightGate ==
  InsightsAnswered =>
    /\ \A i \in GenderInsights :
         /\ p_below_05(req.p.gender[resp.body.insights[i].supporting_data.label])
         /\ RLess(Rat(4, 100), resp.body.insights[i].supporting_data.effect_size.sq)
    /\ \A i \in InsightsOfKind("gap_class") : p_below_05(req.p.class)
    /\ \A i \in InsightsOfKind("gap_regional") : p_below_05(req.p.region)

(* an overall gender gap passes the gate and is reported, while the class   *)
(* gap of the same table, tested at exactly p = 0.05, is not                *)
C6_Witness ==
  /\ InsightsAnswered
  /\ HasInsight("gap_gender_overall")
  /\ req.p.class = 5000
  /\ compute_gap_analysis(df, req.p).class_gaps # <<>>
  /\ InsightsOfKind("gap_class") = {}

(* C8 as stated: for a table with a percentage column, whatever values are  *)
(* missing, compute_gap_analysis and generate_all_insights return a result  *)
C8_AsStated ==
  (req.route \in {"gaps", "insights"} /\ HasCol(df, "percentage") /\ ~NoData)
    => resp.status = 200

(* ------------------------------------------------------------------ *)
(* Properties of POST /ai/parent-summary/{student_id}                  *)
(* ------------------------------------------------------------------ *)
SummaryRequested == req.route = "ai_parent_summary" /\ ~NoData

(* the AI is disabled, the provider is not openai, the credential is        *)
(* missing, or the call fails                                               *)
AiUnavailable ==
  \/ lower(strip(env.ai_enabled)) \notin {"1", "true", "yes", "on"}
  \/ lower(strip(env.provider)) # "openai"
  \/ strip(env.api_key) = ""
  \/ req.outcome # "ok"

MetricKeys ==
  {"student_id", "student_name", "overall_mean", "student_grade", "class_mean",
   "school_mean", "pass_mark"}

(* C10: for an existing student generate_parent_summary answers with a      *)
(* summary that carries the deterministic metrics, and whenever the AI is   *)
(* disabled, misconfigured or failing the summary is the deterministic      *)
(* template, in mode deterministic or deterministic_fallback; for an        *)
(* unknown student the answer is student_not_found and no AI call is made   *)
C10_ParentSummaryFallback ==
  SummaryRequested =>
    IF KnownStudent
    THEN /\ resp.status = 200
         /\ \A k \in MetricKeys :
              resp.body.metrics[k] = student_metrics(df, req.student_id, pass_mark).metrics[k]
         /\ AiUnavailable =>
              /\ resp.body.mode \in {"deterministic", "deterministic_fallback"}
              /\ \A k \in {"summary", "strengths", "concerns", "recommendations", "metrics"} :
                   resp.body[k] =
                     deterministic_parent_summary(
                       student_metrics(df, req.student_id, pass_mark).metrics,
                       "deterministic")[k]
    ELSE resp = NotFound /\ ~req.ai_called

(* the provider's call of an enabled, configured AI times out for a student *)
(* of the table, and the answer is the deterministic fallback               *)
C10_Witness ==
  /\ SummaryRequested
  /\ KnownStudent
  /\ req.ai_called
  /\ req.outcome = "timeout"
  /\ resp.status = 200
  /\ resp.body.mode = "deterministic_fallback"

(* ------------------------------------------------------------------ *)
(* Non-finite numbers                                                  *)
(* ------------------------------------------------------------------ *)
Answered(route) == req.route = route /\ resp.status = 200

(* the keys of the engines' dicts that hold a number or null *)
NumericKeys ==
  {"mean", "median", "std", "min", "max", "pass_rate", "fail_rate", "overall_mean",
   "overall_median", "overall_std", "q1", "q3", "iqr", "r", "p_value", "score",
   "percentage", "risk_score", "school_average", "high_risk_pct", "male_mean",
   "female_mean", "gap", "best_mean", "worst_mean", "delta", "trend_slope",
   "_total_delta", "baseline_mean", "latest_mean", "subject_mean", "school_mean",
   "shortfall", "surplus", "slope", "improvement"}

(* no number of the dict is NaN: each is finite or null *)
Finite(dict) ==
  /\ \A k \in NumericKeys \cap DOMAIN dict : dict[k] # NaN
  /\ "effect_size" \in DOMAIN dict =>
        \A k \in DOMAIN dict.effect_size \ {"neg"} : ~IsNaN(dict.effect_size[k])

FiniteEach(list) == \A i \in DOMAIN list : Finite(list[i])

(* the lists of dicts under the keys of a dict that are present *)
FiniteUnder(dict, keys) == \A k \in keys \cap DOMAIN dict : FiniteEach(dict[k])

FiniteOverview(o) ==
  /\ Finite(o)
  /\ FiniteUnder(o, {"top_students", "bottom_students", "top_subjects", "bottom_subjects",
                     "class_averages", "term_trends"})

FiniteSubjects(b) ==
  /\ FiniteEach(b.subjects)
  /\ \A i \in DOMAIN b.subjects : Finite(b.subjects[i].distribution)
  /\ b.correlation_matrix # <<>> =>
        /\ FiniteEach(b.correlation_matrix.pairs)
        /\ \A ab \in DOMAIN b.correlation_matrix.matrix :
              b.correlation_matrix.matrix[ab] # NaN

FiniteProfile(p) ==
  /\ Finite(p)
  /\ FiniteUnder(p, {"all_scores", "subject_scores", "term_trends"})
  /\ "term_trends" \in DOMAIN p =>
        \A i \in DOMAIN p.term_trends : FiniteEach(p.term_trends[i].by_subject)

FiniteTerms(b) ==
  /\ FiniteUnder(b, {"school_by_term", "students_by_term", "top_improvers", "top_decliners"})
  /\ "school_by_term" \in DOMAIN b =>
        /\ Finite(b.early_performance)
        /\ \A k \in DOMAIN b.subjects_by_term : FiniteEach(b.subjects_by_term[k].terms)
        /\ \A k \in DOMAIN b.subject_term_matrix : FiniteEach(b.subject_term_matrix[k].means)
        /\ \A k \in DOMAIN b.students_by_term : FiniteEach(b.students_by_term[k].terms)
        /\ \A k \in DOMAIN b.class_by_term : FiniteEach(b.class_by_term[k].terms)

FiniteRisk(b) == FiniteEach(b.students) /\ Finite(b.summary)

FiniteGaps(b) ==
  /\ FiniteUnder(b, {"gender_gaps", "class_gaps", "regional_gaps", "term_gaps"})
  /\ \A k \in {"class_gaps", "regional_gaps", "term_gaps"} :
        \A i \in DOMAIN b[k] :
          FiniteUnder(b[k][i], {"class_means", "region_means", "term_means"})

FiniteInsights(b) ==
  \A i \in DOMAIN b.insights :
    /\ Finite(b.insights[i].supporting_data)
    /\ FiniteUnder(b.insights[i].supporting_data,
                   {"class_means", "region_means", "term_means"})

SeverityRank(severity) ==
  CASE severity = "critical" -> 1 [] severity = "warning" -> 2 [] severity = "info" -> 3

GenerationRank(category) ==
  CASE category = "performance" -> 1 [] category = "gap" -> 2 [] category = "at_risk" -> 3
    [] category = "positive" -> 4 [] category = "correlation" -> 5

(* C12: in the insights list every critical insight precedes every warning *)
(* and every warning precedes every info insight, and insights of equal    *)
(* severity keep their generation order: performance, gap, at_risk,        *)
(* positive, correlation                                                   *)
C12_InsightOrder ==
  InsightsAnswered =>
    \A i, j \in DOMAIN resp.body.insights :
      i < j =>
        /\ SeverityRank(resp.body.insights[i].severity)
             <= SeverityRank(resp.body.insights[j].severity)
        /\ resp.body.insights[i].severity = resp.body.insights[j].severity =>
             GenerationRank(resp.body.insights[i].category)
               <= GenerationRank(resp.body.insights[j].category)

(* the sort moved an insight: a critical or warning insight of a later     *)
(* category stands before an insight of an earlier category, and two       *)
(* categories share a severity                                             *)
C12_Witness ==
  /\ InsightsAnswered
  /\ \E i, j \in DOMAIN resp.body.insights :
        /\ i < j
        /\ SeverityRank(resp.body.insights[i].severity)
             < SeverityRank(resp.body.insights[j].severity)
        /\ GenerationRank(resp.body.insights[i].category)
             > GenerationRank(resp.body.insights[j].category)
  /\ \E i, j \in DOMAIN resp.body.insights :
        /\ resp.body.insights[i].severity = resp.body.insights[j].severity
        /\ resp.body.insights[i].category # resp.body.insights[j].category

(* ------------------------------------------------------------------ *)
(* sort_terms                                                          *)
(* ------------------------------------------------------------------ *)
Sorted(calls) == req.route = "sort_terms" /\ resp.status = 200 /\ resp.calls = calls

(* C13: sort_terms is idempotent, sort_terms(sort_terms(x)) = sort_terms(x) *)
(* for every list x, and it sorts ["Term 2", "Term 1", "Term 3"] into      *)
(* ["Term 1", "Term 2", "Term 3"]                                          *)
C13_SortTermsIdempotent ==
  /\ Sorted(2) => resp.body = resp.input
  /\ Sorted(1) /\ req.term_list = <<"Term 2", "Term 1", "Term 3">> =>
        resp.body = <<"Term 1", "Term 2", "Term 3">>

(* a second sort of a list that the first sort had to reorder, with two    *)
(* labels of the same term in it                                           *)
C13_Witness ==
  /\ Sorted(2)
  /\ resp.body = resp.input
  /\ resp.body # req.term_list
  /\ \E i, j \in DOMAIN resp.body :
        i # j /\ resp.body[i] = "T1" /\ resp.body[j] = "Term 1"

(* ------------------------------------------------------------------ *)
(* Term comparison                                                     *)
(* ------------------------------------------------------------------ *)
(* a term comparison was answered for a table with a term column *)
TermsAnswered == Answered("term_comparison") /\ HasCol(df, "term")

(* the term labels written in the table, without the missing ones *)
RawTerms == {df.rows[i].term : i \in 1..Len(df.rows)} \ {NaNStr}

Numbered(label) == DigitRuns(label) # <<>>

(* C14: compute_term_comparison rewrites every term label with a digit     *)
(* sequence to "Term N", N being the first digit sequence, merges the       *)
(* labels with the same N and returns the terms sorted ascending by N; the  *)
(* labels T1, Term 2 and 3 yield Term 1, Term 2, Term 3                     *)
C14_CanonicalTerms ==
  TermsAnswered =>
    /\ \A l \in RawTerms :
          Numbered(l) =>
            /\ Contains(resp.body.terms, term_label(DigitRuns(l)[1]))
            /\ l # term_label(DigitRuns(l)[1]) => ~Contains(resp.body.terms, l)
    /\ \A i, j \in DOMAIN resp.body.terms :
          i < j =>
            /\ resp.body.terms[i] # resp.body.terms[j]
            /\ Numbered(resp.body.terms[i]) /\ Numbered(resp.body.terms[j]) =>
                  DigitRuns(resp.body.terms[i])[1] < DigitRuns(resp.body.terms[j])[1]
    /\ RawTerms = {"T1", "Term 2", "3"} =>
          resp.body.terms = <<"Term 1", "Term 2", "Term 3">>

(* the labels T1, Term 2 and 3, met in the order Term 2, T1, 3, are         *)
(* answered as Term 1, Term 2, Term 3                                       *)
C14_Witness ==
  /\ TermsAnswered
  /\ RawTerms = {"T1", "Term 2", "3"}
  /\ df.rows[1].term = "Term 2"
  /\ resp.body.terms = <<"Term 1", "Term 2", "Term 3">>

(* ------------------------------------------------------------------ *)
(* Gender gaps                                                         *)
(* ------------------------------------------------------------------ *)
GapsAnswered == Answered("gaps")

(* the non-null percentages of a gender in a scope: the whole table, or    *)
(* the rows of one subject                                                 *)
ScopeScores(scope, gender) ==
  PctOf(SelectSeq(df.rows, LAMBDA r : /\ r.gender = gender
                                      /\ scope = "Overall" \/ r.subject = scope))

GapScopes == {resp.body.gender_gaps[i].label : i \in DOMAIN resp.body.gender_gaps}

(* C15: a gender-gap entry is produced for a scope, overall or one subject, *)
(* only when the male and the female group both have at least 2 non-null   *)
(* percentages in it; with one gender in the table gender_gaps is empty     *)
C15_GenderGate ==
  GapsAnswered =>
    /\ \A scope \in GapScopes :
          Len(ScopeScores(scope, "M")) >= 2 /\ Len(ScopeScores(scope, "F")) >= 2
    /\ (\A i \in DOMAIN df.rows : df.rows[i].gender # "M") => resp.body.gender_gaps = <<>>
    /\ (\A i \in DOMAIN df.rows : df.rows[i].gender # "F") => resp.body.gender_gaps = <<>>

(* the gate at work: an overall entry, and none for English, where there   *)
(* is one score of a boy and none of a girl                                *)
C15_Witness ==
  /\ GapsAnswered
  /\ "Overall" \in GapScopes
  /\ "Eng" \notin GapScopes
  /\ Len(ScopeScores("Eng", "M")) = 1

(* ------------------------------------------------------------------ *)
(* Column detection                                                    *)
(* ------------------------------------------------------------------ *)
(* the column each engine takes for a logical field of the table *)
Resolved(d) ==
  [overview |-> [student |-> overview_columns(d).student,
                 class |-> overview_columns(d).class,
                 term |-> overview_columns(d).term,
                 score |-> find_col(d, STATS_SCORE_ALIASES),
                 max_score |-> find_col(d, STATS_MAX_ALIASES)],
   profile |-> [student |-> profile_columns(d).student,
                class |-> profile_columns(d).class,
                term |-> profile_columns(d).term,
                score |-> find_col(d, STATS_SCORE_ALIASES),
                max_score |-> find_col(d, STATS_MAX_ALIASES)],
   risk |-> [student |-> risk_columns(d).student,
             class |-> risk_columns(d).class,
             term |-> risk_columns(d).term,
             score |-> find_col(d, RISK_SCORE_ALIASES),
             max_score |-> find_col(d, RISK_MAX_ALIASES)],
   gaps |-> [student |-> risk_columns(d).student,
             class |-> gap_columns(d).class,
             term |-> gap_columns(d).term,
             score |-> find_col(d, RISK_SCORE_ALIASES),
             max_score |-> find_col(d, RISK_MAX_ALIASES)]]

(* C16: for any table the statistics, risk, gap and insight engines        *)
(* resolve each logical field (student, class, term, score, max_score) to  *)
(* the same column, or all to none                                         *)
C16_AsStated ==
  req.route # "none" =>
    \A e1, e2 \in DOMAIN Resolved(df) : Resolved(df)[e1] = Resolved(df)[e2]

(* ------------------------------------------------------------------ *)
(* Metrics of the parent summary                                       *)
(* ------------------------------------------------------------------ *)
(* C17: for the same table, student and pass mark the metrics block of the *)
(* parent summary is the same in every mode: whether the AI call succeeds,  *)
(* fails or is disabled, every metric value, class included, equals the     *)
(* deterministically computed one                                           *)
C17_AsStated ==
  SummaryRequested /\ resp.status = 200 =>
    resp.body.metrics =
      deterministic_parent_summary(student_metrics(df, req.student_id, pass_mark).metrics,
                                   "deterministic").metrics

(* ------------------------------------------------------------------ *)
(* Order of sort_terms                                                 *)
(* ------------------------------------------------------------------ *)
(* the numeric token of a label of TermLabels, which has at most one number *)
Token(label) == DigitRuns(label)[1]

WithToken(list, n) == SelectSeq(list, LAMBDA l : Numbered(l) /\ Token(l) = n)

(* C18: sort_terms orders the labels ascending by their numeric token,     *)
(* keeps the input order among labels with equal tokens, and places every  *)
(* label without a numeric token after all labels that have one            *)
C18_AsStated ==
  Sorted(1) =>
    /\ \A i, j \in DOMAIN resp.body :
          i < j =>
            /\ Numbered(resp.body[i]) /\ Numbered(resp.body[j]) =>
                  Token(resp.body[i]) <= Token(resp.body[j])
            /\ Numbered(resp.body[j]) => Numbered(resp.body[i])
    /\ \A l \in Range(req.term_list) :
          Numbered(l) => WithToken(resp.body, Token(l)) = WithToken(req.term_list, Token(l))
    /\ SelectSeq(resp.body, LAMBDA l : ~Numbered(l))
         = SelectSeq(req.term_list, LAMBDA l : ~Numbered(l))

(* ------------------------------------------------------------------ *)
(* Ranks of the profile                                                *)
(* ------------------------------------------------------------------ *)
(* the students of the rows in order of first appearance, and their means *)
Appearing(rows) == unique(ColOf(rows, "student_id"))

MeanOf(rows, sid) == mean(PctOf(rows_of_student(rows, "student_id", sid)))

Above(rows, sid) ==
  {s \in Range(Appearing(rows)) :
     ~IsNaN(MeanOf(rows, s)) /\ RLess(MeanOf(rows, sid), MeanOf(rows, s))}

(* the dense rank: one more than the number of distinct greater means *)
DenseRank(rows, sid) == 1 + Cardinality({MeanOf(rows, s) : s \in Above(rows, sid)})

(* the position by descending mean with equal means in order of first      *)
(* appearance                                                              *)
AppearanceRank(rows, sid) ==
  1 + Cardinality(Above(rows, sid))
    + Cardinality({i \in DOMAIN Appearing(rows) :
                     /\ MeanOf(rows, Appearing(rows)[i]) = MeanOf(rows, sid)
                     /\ \E j \in DOMAIN Appearing(rows) : i < j /\ Appearing(rows)[j] = sid})

ClassOf(sid) == class_rows(df.rows, "class", resp.body.class)

(* C19: class_rank and school_rank are the student's dense rank by         *)
(* descending mean percentage within the class and the school, students of *)
(* equal mean being ordered by first appearance in the table; either       *)
(* reading of a tie is accepted                                            *)
C19_AsStated ==
  Answered("student") /\ resp.body.overall_mean # None =>
    /\ resp.body.school_rank
         \in {DenseRank(df.rows, req.student_id), AppearanceRank(df.rows, req.student_id)}
    /\ resp.body.class_rank
         \in {DenseRank(ClassOf(req.student_id), req.student_id),
              AppearanceRank(ClassOf(req.student_id), req.student_id)}

(* ------------------------------------------------------------------ *)
(* the term-over-term series of compute_term_comparison                *)
(* ------------------------------------------------------------------ *)
(* the classification of a change of the mean, in hundredths of a point *)
TrendOf(delta) ==
  IF delta > 100 THEN "improving" ELSE IF delta < -100 THEN "declining" ELSE "stable"

(* a series whose first term alone is the baseline and whose later terms    *)
(* carry the change from the term before                                    *)
SeriesAsStated(terms) ==
  \A i \in DOMAIN terms :
     IF i = 1 THEN terms[i].delta = None /\ terms[i].trend = "baseline"
     ELSE /\ terms[i].delta # None
          /\ terms[i].mean # None
          /\ terms[i - 1].mean # None
          /\ terms[i].delta = terms[i].mean - terms[i - 1].mean
          /\ terms[i].trend = TrendOf(terms[i].delta)

(* C20: in every school, subject and student series of                      *)
(* compute_term_comparison the first term in sorted order, and only it, has *)
(* a null delta marked baseline; every later term has delta equal to its    *)
(* mean minus the mean of the term before, improving when the delta is      *)
(* above 1, declining when it is below -1 and stable otherwise              *)
C20_AsStated ==
  TermsAnswered =>
    /\ SeriesAsStated(resp.body.school_by_term)
    /\ \A k \in DOMAIN resp.body.subjects_by_term :
          SeriesAsStated(resp.body.subjects_by_term[k].terms)
    /\ \A k \in DOMAIN resp.body.students_by_term :
          SeriesAsStated(resp.body.students_by_term[k].terms)

(* ------------------------------------------------------------------ *)
(* The Sudden Drop factor of compute_risk_scores                       *)
(* ------------------------------------------------------------------ *)
(* the rows of a student of the response *)
RowsOfId(student_id) == SelectSeq(df.rows, LAMBDA r : Str(r.student_id) = student_id)

(* the student's terms in the order they appear in the table, and in the   *)
(* calendar order sort_terms gives them                                    *)
AppearanceOrder(rows) == unique(ColOf(rows, "term"))
CalendarOrder(rows) == sort_terms(unique(ColOf(rows, "term")))

Scored(r) == r.percentage # NaN

(* some score of a subject falls by more than 20 points from a term to the *)
(* next term of the order                                                  *)
SomeFall(rows, order) ==
  \E k \in 1..(Len(order) - 1) : \E i, j \in DOMAIN rows :
     /\ rows[i].subject = rows[j].subject
     /\ rows[i].term = order[k] /\ rows[j].term = order[k + 1]
     /\ Scored(rows[i]) /\ Scored(rows[j])
     /\ rows[i].percentage - rows[j].percentage > 20

(* every score of a subject falls by more than 20 points from a term to    *)
(* the next term of the order                                              *)
EveryFall(rows, order) ==
  \E k \in 1..(Len(order) - 1) : \E i, j \in DOMAIN rows :
     /\ rows[i].subject = rows[j].subject
     /\ rows[i].term = order[k] /\ rows[j].term = order[k + 1]
     /\ \A m, n \in DOMAIN rows :
          /\ rows[m].subject = rows[i].subject /\ rows[n].subject = rows[i].subject
          /\ rows[m].term = order[k] /\ rows[n].term = order[k + 1]
          => /\ Scored(rows[m]) /\ Scored(rows[n])
             /\ rows[m].percentage - rows[n].percentage > 20

SuddenDrop(s) ==
  \E i \in DOMAIN s.factors : s.factors[i].factor = "Sudden Drop" /\ s.factors[i].triggered

(* the factor is triggered only on a fall between consecutive terms, in     *)
(* calendar or in appearance order, and on every such fall                  *)
DropAsStated(s, rows) ==
  /\ SuddenDrop(s) => SomeFall(rows, CalendarOrder(rows)) \/ SomeFall(rows, AppearanceOrder(rows))
  /\ EveryFall(rows, CalendarOrder(rows)) /\ EveryFall(rows, AppearanceOrder(rows))
       => SuddenDrop(s)

(* C21: the Sudden Drop factor of a student is triggered exactly when, for  *)
(* some subject, the student's score falls by more than 20 points between   *)
(* two consecutive terms in chronological order; a fall between two         *)
(* assessments of one term, or between terms that are not adjacent, does    *)
(* not trigger it                                                           *)
C21_AsStated ==
  RiskAnswered =>
    \A i \in DOMAIN resp.body.students :
       DropAsStated(resp.body.students[i], RowsOfId(resp.body.students[i].student_id))

(* ------------------------------------------------------------------ *)
(* The class gap of compute_gap_analysis                               *)
(* ------------------------------------------------------------------ *)
(* the classes written in the table, and those of them with a score *)
TableClasses == labels_of(df.rows, "class")
ScoredClasses == score_groups(df.rows, "class", TableClasses, 1)

(* the test and the effect size the count of classes calls for *)
TestAsStated(gap, groups, count) ==
  IF count = 2
  THEN /\ gap.test_type = "t-test"
       /\ Len(groups) = 2
       /\ gap.effect_size = cohens_d(groups[1].scores, groups[2].scores)
  ELSE /\ gap.test_type = "ANOVA"
       /\ gap.effect_size = [eta_squared |-> eta_squared(groups)]

(* the class named has a mean no other class of the table exceeds (sign 1)  *)
(* or undercuts (sign -1)                                                   *)
Extreme(name, groups, sign) ==
  \E i \in DOMAIN groups :
     /\ groups[i].key = name
     /\ \A j \in DOMAIN groups :
          IF sign = 1 THEN ~RLess(mean(groups[i].scores), mean(groups[j].scores))
          ELSE ~RLess(mean(groups[j].scores), mean(groups[i].scores))

ClassGapAsStated(gap) ==
  /\ \/ TestAsStated(gap, ScoredClasses, Len(TableClasses))
     \/ TestAsStated(gap, ScoredClasses, Len(ScoredClasses))
  /\ Extreme(gap.best_class, ScoredClasses, 1)
  /\ Extreme(gap.worst_class, ScoredClasses, -1)

(* C22: the class gap uses a Welch t-test with Cohen's d when the table has *)
(* exactly 2 classes and a one-way ANOVA with eta-squared when it has 3 or  *)
(* more, and its best and worst class are the classes of the highest and    *)
(* the lowest mean among all classes of the table                           *)
C22_AsStated ==
  GapsAnswered =>
    \A i \in DOMAIN resp.body.class_gaps : ClassGapAsStated(resp.body.class_gaps[i])

(* ------------------------------------------------------------------ *)
(* The recommendation of compute_risk_scores                           *)
(* ------------------------------------------------------------------ *)
(* the text of a risk level: the library's for High and Medium *)
LevelText(risk_level) ==
  CASE risk_level = "High" -> "general_high"
    [] risk_level = "Medium" -> "general_medium"
    [] OTHER -> "satisfactory"

Triggered(s) == {i \in DOMAIN s.factors : s.factors[i].triggered}

(* the triggered factors of the greatest weight *)
TopFactors(s) ==
  {i \in Triggered(s) : \A j \in Triggered(s) : s.factors[j].weight <= s.factors[i].weight}

RecommendationAsStated(s) ==
  IF Triggered(s) = {} THEN s.recommendation = <<LevelText(s.risk_level)>>
  ELSE \E i \in TopFactors(s) :
          /\ Cardinality(TopFactors(s)) = 1
          /\ factor_key(s.factors[i].factor) \in RECOMMENDATIONS
          /\ s.recommendation = <<LevelText(s.risk_level), factor_key(s.factors[i].factor)>>

(* C23: the recommendation of each student is the library text of the       *)
(* student's risk level plus the library text of the single highest-weight  *)
(* triggered factor, whichever of the five factors that is                  *)
C23_AsStated ==
  RiskAnswered =>
    \A i \in DOMAIN resp.body.students : RecommendationAsStated(resp.body.students[i])

(* ------------------------------------------------------------------ *)
(* Properties of routes/upload.py                                      *)
(* ------------------------------------------------------------------ *)
(* the last request was a confirm_mapping for a session of the store *)
Confirmed == req.route = "confirm_mapping" /\ resp.status # 404

(* the files of a session in the uploads directory *)
UploadsOf(session_id) == {f \in files : f.dir = UPLOAD_DIR /\ f.name = session_id}

(* C24: after confirm_mapping has been called for an existing session, the  *)
(* session is no longer in the session store and its temporary upload file  *)
(* is deleted, in every outcome of the call: success, HTTP error or any     *)
(* other failure                                                            *)
C24_AsStated ==
  Confirmed => req.session_id \notin DOMAIN sessions /\ UploadsOf(req.session_id) = {}

(* C25: no sequence of upload, load-sample, confirm-mapping, end-session    *)
(* and expiry-purge operations deletes a bundled sample dataset: a file     *)
(* that leaves the disk lies inside the uploads directory                   *)
C25_SamplesKept ==
  [][\A f \in files : f \notin files' => f.dir = UPLOAD_DIR /\ f \notin SampleFiles]_vars

(* a request has popped a session of a bundled dataset, by confirmation,    *)
(* end of session or expiry, and the dataset is still on disk               *)
C25_Witness ==
  \E p \in popped : p.file_path \in SampleFiles /\ p.file_path \in files

(* ------------------------------------------------------------------ *)
(* The score records of compute_student_profile                        *)
(* ------------------------------------------------------------------ *)
(* the number of all_scores records of a profile with a label *)
Labelled(profile, label) ==
  Cardinality({i \in DOMAIN profile.all_scores : profile.all_scores[i].pass_fail = label})

(* C26: in every profile returned by compute_student_profile the number of  *)
(* all_scores records labelled Pass equals pass_count and the number        *)
(* labelled Fail equals fail_count, for every pass mark, 0 included, and    *)
(* for rows with a missing percentage                                       *)
C26_AsStated ==
  Answered("student") =>
    /\ Labelled(resp.body, "Pass") = resp.body.pass_count
    /\ Labelled(resp.body, "Fail") = resp.body.fail_count

(* ------------------------------------------------------------------ *)
(* The trend of a student in the two engines                           *)
(* ------------------------------------------------------------------ *)
(* the students compute_risk_scores reports as declining for the table *)
Declining(risk) ==
  IF risk.exc # "none" THEN {}
  ELSE {risk.students[i].student_id :
          i \in {j \in DOMAIN risk.students : risk.students[j].trend_direction = "declining"}}

(* the students with a Most Improved insight in a result of                 *)
(* generate_all_insights                                                    *)
MostImproved(result) ==
  {sid \in {Str(df.rows[i].student_id) : i \in DOMAIN df.rows} :
     \E j \in DOMAIN result.insights :
        result.insights[j].id = "pos_improving_" \o id_text(sid)}

(* C27: for the same table and pass mark no student is both reported with   *)
(* trend_direction declining by compute_risk_scores and given a Most        *)
(* Improved insight by generate_all_insights: the two engines order a       *)
(* student's terms the same way before fitting the slope                    *)
C27_AsStated ==
  Answered("insights") =>
    \A nanfit \in NanFits :
       Declining(compute_risk_scores(df, pass_mark, nanfit)) \cap MostImproved(resp.body) = {}

(* ------------------------------------------------------------------ *)
(* The movers of compute_term_comparison                               *)
(* ------------------------------------------------------------------ *)
MoverIds(list) == {list[i].student_id : i \in DOMAIN list}

(* C28: in compute_term_comparison every entry of top_improvers has a       *)
(* positive first-to-last-term delta and every entry of top_decliners a     *)
(* negative one, so no student appears in both lists                        *)
C28_AsStated ==
  TermsAnswered =>
    /\ \A i \in DOMAIN resp.body.top_improvers : resp.body.top_improvers[i].delta > 0
    /\ \A i \in DOMAIN resp.body.top_decliners : resp.body.top_decliners[i].delta < 0
    /\ MoverIds(resp.body.top_improvers) \cap MoverIds(resp.body.top_decliners) = {}

(* ------------------------------------------------------------------ *)
(* The ids of the insights                                             *)
(* ------------------------------------------------------------------ *)
InsightIds(result) == [i \in DOMAIN result.insights |-> result.insights[i].id]

(* C29: within one result of generate_all_insights the insight ids are      *)
(* pairwise distinct: no two insights share an id                           *)
C29_AsStated ==
  Answered("insights") =>
    \A i, j \in DOMAIN resp.body.insights :
       i # j => InsightIds(resp.body)[i] # InsightIds(resp.body)[j]

(* ------------------------------------------------------------------ *)
(* The overall-mean insight                                            *)
(* ------------------------------------------------------------------ *)
OverallMeanInsights ==
  {i \in DOMAIN resp.body.insights :
     resp.body.insights[i].id \in {"perf_low_overall_mean", "perf_good_overall_mean"}}

BelowPassMark ==
  safe_float0(compute_overview(df, pass_mark).overview.overall_mean) < pass_mark * 100

(* C30: every result of generate_all_insights holds exactly one overall-    *)
(* mean performance insight, perf_low_overall_mean when the overall mean is *)
(* below the pass mark and perf_good_overall_mean otherwise; so its list of *)
(* insights is never empty and its executive summary is never the text for  *)
(* no insights                                                              *)
C30_OneOverallMeanInsight ==
  Answered("insights") =>
    /\ Cardinality(OverallMeanInsights) = 1
    /\ HasInsight("perf_low_overall_mean") <=> BelowPassMark
    /\ HasInsight("perf_good_overall_mean") <=> ~BelowPassMark
    /\ resp.body.insights # <<>>
    /\ resp.body.executive_summary.total > 0

(* a table without a single score: its result holds the low overall-mean   *)
(* insight and nothing else                                                 *)
C30_Witness ==
  /\ Answered("insights")
  /\ Len(resp.body.insights) = 1
  /\ HasInsight("perf_low_overall_mean")
  /\ resp.body.executive_summary.total = 1

====
